---- MODULE Spec2Model ----
(***************************************************************************)
(* Historify: the OHLCV resampling engine (app/utils/data_resampler.py).   *)
(*                                                                         *)
(* Time is counted in minutes.  Day 0 is 2023-01-01 (a Sunday and the      *)
(* first day of a month), the date the repository's tests use.  A naive    *)
(* timestamp is  date * MinutesPerDay + time ; a localized timestamp is an *)
(* instant (minutes on the UTC axis) together with the zone's offset.  The *)
(* modelled days contain no daylight-saving transition, so every zone has  *)
(* one fixed offset.                                                       *)
(***************************************************************************)
EXTENDS Integers, Sequences, FiniteSets, TLC

VARIABLES
    \* ---- Series Builder, Aggregator and Validator applied to one list (SpecAgg) ----
    a_pc,          \* "raw" | "prepared" | "aggregated" | "validated" | "raised"
    a_data,        \* the list of StockData records handed to _prepare_dataframe
    a_exchange,    \* the exchange argument
    a_tf,          \* the target timeframe code
    a_df,          \* the frame _prepare_dataframe returned
    a_resampled,   \* the frame resample() returned
    a_validation,  \* what _validate_data_integrity returned
    \* ---- one call of a public entry point of a DataResampler (Spec) ----
    pc,            \* the call's position
    entry,         \* the entry point called
    stored,        \* the stock_data rows the call's query matches, ORDER BY date, time
    chunk_size,    \* self.chunk_size
    args,          \* the call's arguments
    progress,      \* the (completed, total) reports given to the progress sink
    queries,       \* the storage requests made: count(), all(), offset/limit pages
    source,        \* the rows fetched last (query.all() or one page)
    cur_df,        \* the frame prepared last (df, chunk_df, source_df)
    cur_resampled, \* the frame aggregated last (resampled_df, chunk_resampled)
    acc,           \* all_resampled_data of the chunked path
    offset,        \* offset of the chunked path
    processed,     \* processed_records of the chunked path
    idx,           \* position in target_timeframes of the multi-timeframe loop
    raised,        \* the exceptions raised during the call, in order
    result,        \* what resample_data returned
    results,       \* what resample_to_standard_timeframes returned (so far)
    \* ---- the other components, each one's state held in one record ----
    pair,          \* two resample_data calls on one DataResampler instance (SpecPair)
    opt,           \* one call of get_optimal_chunk_size_for_timeframe (SpecOpt)
    bulk,          \* one request to the bulk resample route (SpecBulk)
    limiter,       \* a RateLimiter and the threads that call through it (SpecLimiter)
    fetcher,       \* one call of fetch_historical_data_chunked (SpecFetch)
    sched          \* the scheduler, its job store and the scheduler_jobs table (SpecSched)

aggVars == <<a_pc, a_data, a_exchange, a_tf, a_df, a_resampled, a_validation>>
callVars == <<pc, entry, stored, chunk_size, args, progress, queries, source, cur_df,
              cur_resampled, acc, offset, processed, idx, raised, result, results>>
extVars == <<pair, opt, bulk, limiter, fetcher, sched>>
vars == <<aggVars, callVars, extVars>>

-----------------------------------------------------------------------------
(* Bounds and input domains *)

MaxCandles == 2
MinutesPerDay == 1440
Prices == {1, 2}
Volumes == {1, 2}

\* naive timestamp of day d, minute-of-day m
At(d, m) == d * MinutesPerDay + m

-----------------------------------------------------------------------------
(* Calendar *)

\* first days of the months of 2023 that the model's dates reach
MonthStarts == <<0, 31, 59, 90, 120>>

\* the last month start that is <= day d
RECURSIVE MonthStartUpTo(_, _)
MonthStartUpTo(d, i) ==
    IF i < Len(MonthStarts) /\ MonthStarts[i + 1] <= d
    THEN MonthStartUpTo(d, i + 1)
    ELSE MonthStarts[i]

\* the first month start that is > day d
RECURSIVE MonthStartAfter(_, _)
MonthStartAfter(d, i) ==
    IF MonthStarts[i] > d THEN MonthStarts[i] ELSE MonthStartAfter(d, i + 1)

-----------------------------------------------------------------------------
(* Timeframe Registry *)

\* (mutation) the table without its last entry
SupportedWithoutMonth ==
    [c \in {"1m", "5m", "15m", "30m", "1h", "1d", "1w"} |->
        CASE c = "1m"  -> "1min"
          [] c = "5m"  -> "5min"
          [] c = "15m" -> "15min"
          [] c = "30m" -> "30min"
          [] c = "1h"  -> "1H"
          [] c = "1d"  -> "1D"
          [] c = "1w"  -> "1W"]

SUPPORTED_TIMEFRAMES ==
    [c \in {"1m", "5m", "15m", "30m", "1h", "1d", "1w", "1M"} |->
        CASE c = "1m"  -> "1min"
          [] c = "5m"  -> "5min"
          [] c = "15m" -> "15min"
          [] c = "30m" -> "30min"
          [] c = "1h"  -> "1H"
          [] c = "1d"  -> "1D"
          [] c = "1w"  -> "1W"
          [] c = "1M"  -> "1MS"]

STANDARD_TIMEFRAMES == {"5m", "15m", "30m", "1h", "1d"}

\* the codes the spec, the tests and the callers name
TimeframeCodes == {"1m", "2m", "3m", "5m", "10m", "15m", "30m", "1h", "1d", "1w", "1M"}

Invalid == "ValueError"

\* _validate_timeframe: the pandas rule, or Invalid when it raises ValueError
ValidateTimeframe(timeframe) ==
    IF timeframe \notin DOMAIN SUPPORTED_TIMEFRAMES
    THEN Invalid
    ELSE SUPPORTED_TIMEFRAMES[timeframe]

MARKET_TIMEZONES ==
    [e \in {"NSE", "BSE", "NYSE", "NASDAQ", "LSE", "TSE"} |->
        CASE e = "NSE"    -> "Asia/Kolkata"
          [] e = "BSE"    -> "Asia/Kolkata"
          [] e = "NYSE"   -> "America/New_York"
          [] e = "NASDAQ" -> "America/New_York"
          [] e = "LSE"    -> "Europe/London"
          [] e = "TSE"    -> "Asia/Tokyo"]

\* pytz: the zone's offset from UTC in minutes (January to April, no transition)
UtcOffset(tz_name) ==
    CASE tz_name = "Asia/Kolkata"     -> 330
      [] tz_name = "America/New_York" -> -300
      [] tz_name = "Europe/London"    -> 0
      [] tz_name = "Asia/Tokyo"       -> 540
      [] OTHER                        -> 0

\* _get_market_timezone
GetMarketTimezone(exchange) ==
    IF exchange \in DOMAIN MARKET_TIMEZONES THEN MARKET_TIMEZONES[exchange] ELSE "UTC"

-----------------------------------------------------------------------------
(* Frames.  A frame is  [tz, rows] : rows is a sequence of records          *)
(* [ts, open, high, low, close, volume] in index order; ts is an instant.  *)

NoTz == "none"
EmptyFrame == [tz |-> NoTz, rows |-> <<>>]

\* pandas' missing value; prices and volumes are never negative
NaN == -1
IsNum(x) == x # NaN

FrameEmpty(df) == Len(df.rows) = 0

\* offset of the frame's index zone
FrameOffset(df) == IF df.tz = NoTz THEN 0 ELSE UtcOffset(df.tz)

\* wall-clock minutes of instant t at offset off
Local(t, off) == t + off

\* (mutation) midnight taken on the UTC axis, the zone ignored
NormalizeUtc(t, off) == (t \div MinutesPerDay) * MinutesPerDay

\* Timestamp.normalize(): the instant of local midnight of t's local day
Normalize(t, off) == (Local(t, off) \div MinutesPerDay) * MinutesPerDay - off

\* local day number of instant t
LocalDay(t, off) == Local(t, off) \div MinutesPerDay

\* the instant of local midnight of local day d
DayStart(d, off) == d * MinutesPerDay - off

-----------------------------------------------------------------------------
(* Series Builder: _prepare_dataframe *)

\* r goes after every row whose index is <= its own (a stable insertion)
RECURSIVE InsertSorted(_, _)
InsertSorted(r, s) ==
    IF s = <<>> THEN <<r>>
    ELSE IF Head(s).ts <= r.ts
         THEN <<Head(s)>> \o InsertSorted(r, Tail(s))
         ELSE <<r>> \o s

\* (mutation) the frame is left in the order of the input list
SortIndexSkipped(rows) == rows

\* DataFrame.sort_index on the frame's rows
RECURSIVE SortIndex(_)
SortIndex(rows) ==
    IF rows = <<>> THEN <<>>
    ELSE InsertSorted(rows[Len(rows)], SortIndex(SubSeq(rows, 1, Len(rows) - 1)))

\* tz_localize: the wall clock is kept, the offset attached
Localize(naive, tz_name) == naive - UtcOffset(tz_name)

PrepareDataframe(data, exchange) ==
    IF data = <<>> THEN EmptyFrame
    ELSE LET market_tz == GetMarketTimezone(exchange)
             records == [i \in 1..Len(data) |->
                            [ts     |-> Localize(At(data[i].date, data[i].time), market_tz),
                             open   |-> data[i].open,
                             high   |-> data[i].high,
                             low    |-> data[i].low,
                             close  |-> data[i].close,
                             volume |-> data[i].volume]]
         IN  [tz |-> market_tz, rows |-> SortIndex(records)]

-----------------------------------------------------------------------------
(* pandas resample(rule, label='left', closed='left'): the bin edges *)

IsTick(rule) == rule \in {"1min", "5min", "15min", "30min", "1H", "1D"}

\* the width of a fixed-width rule, in minutes
TickMinutes(rule) ==
    CASE rule = "1min"  -> 1
      [] rule = "5min"  -> 5
      [] rule = "15min" -> 15
      [] rule = "30min" -> 30
      [] rule = "1H"    -> 60
      [] rule = "1D"    -> MinutesPerDay

\* _get_timestamp_range_edges / _adjust_dates_anchored, closed='left':
\* the first edge, at or before the first index value
FirstEdge(df, rule) ==
    LET off    == FrameOffset(df)
        first  == df.rows[1].ts
    IN  CASE IsTick(rule) ->
               LET origin  == Normalize(first, off)
                   foffset == (first - origin) % TickMinutes(rule)
               IN  IF foffset > 0 THEN first - foffset ELSE first
          [] rule = "1W" ->
               LET d == LocalDay(first, off) IN DayStart(d - (d % 7), off)
          [] rule = "1MS" ->
               DayStart(MonthStartUpTo(LocalDay(first, off), 1), off)

\* the last edge, after the last index value
LastEdge(df, rule) ==
    LET off   == FrameOffset(df)
        first == df.rows[1].ts
        last  == df.rows[Len(df.rows)].ts
    IN  CASE IsTick(rule) ->
               LET origin  == Normalize(first, off)
                   w       == TickMinutes(rule)
                   loffset == (last - origin) % w
               IN  IF loffset > 0 THEN last + (w - loffset) ELSE last + w
          [] rule = "1W" ->
               LET d == LocalDay(last, off) IN DayStart(d - (d % 7) + 7, off)
          [] rule = "1MS" ->
               DayStart(MonthStartAfter(LocalDay(last, off), 1), off)

\* date_range(first, last, freq): every edge from the first to the last
BinEdges(df, rule) ==
    LET off == FrameOffset(df)
        lo  == FirstEdge(df, rule)
        hi  == LastEdge(df, rule)
    IN  CASE IsTick(rule) ->
               [k \in 1..((hi - lo) \div TickMinutes(rule) + 1) |->
                    lo + (k - 1) * TickMinutes(rule)]
          [] rule = "1W" ->
               [k \in 1..((hi - lo) \div (7 * MinutesPerDay) + 1) |->
                    lo + (k - 1) * 7 * MinutesPerDay]
          [] rule = "1MS" ->
               LET starts == SelectSeq(MonthStarts,
                                 LAMBDA d : lo <= DayStart(d, off) /\ DayStart(d, off) <= hi)
               IN  [k \in 1..Len(starts) |-> DayStart(starts[k], off)]

\* closed='left': bin k holds the rows with edges[k] <= ts < edges[k+1]
BinRows(df, edges, k) ==
    SelectSeq(df.rows, LAMBDA r : edges[k] <= r.ts /\ r.ts < edges[k + 1])

\* (mutation) label='right': bin k is labelled by its closing edge
BinLabelRight(edges, k) == edges[k + 1]

\* label='left': bin k is labelled by edges[k]
BinLabel(edges, k) == edges[k]

SeqMax(s) == CHOOSE x \in {s[i] : i \in 1..Len(s)} : \A j \in 1..Len(s) : s[j] <= x
SeqMin(s) == CHOOSE x \in {s[i] : i \in 1..Len(s)} : \A j \in 1..Len(s) : x <= s[j]
RECURSIVE SeqSum(_)
SeqSum(s) == IF s = <<>> THEN 0 ELSE Head(s) + SeqSum(Tail(s))

\* (mutations) open from the last candle; high from the first candle; volume as
\* the greatest volume
ReduceFirstLast(g) == IF g = <<>> THEN NaN ELSE g[Len(g)].open
ReduceMaxFirst(g)  == IF g = <<>> THEN NaN ELSE g[1].high
ReduceSumMax(g)    == IF g = <<>> THEN 0 ELSE SeqMax([i \in 1..Len(g) |-> g[i].volume])

ReduceFirst(g)  == IF g = <<>> THEN NaN ELSE g[1].open
ReduceMax(g)    == IF g = <<>> THEN NaN ELSE SeqMax([i \in 1..Len(g) |-> g[i].high])
ReduceMin(g)    == IF g = <<>> THEN NaN ELSE SeqMin([i \in 1..Len(g) |-> g[i].low])
ReduceLast(g)   == IF g = <<>> THEN NaN ELSE g[Len(g)].close
ReduceSum(g)    == SeqSum([i \in 1..Len(g) |-> g[i].volume])

\* the reduction named by a default aggregation rule
Reduce(how, g) ==
    CASE how = "first" -> ReduceFirst(g)
      [] how = "max"   -> ReduceMax(g)
      [] how = "min"   -> ReduceMin(g)
      [] how = "last"  -> ReduceLast(g)
      [] how = "sum"   -> ReduceSum(g)

\* TimeGrouper sorts an index that is not monotonic (a stable sort)
GrouperSort(df) == [df EXCEPT !.rows = SortIndex(df.rows)]

\* a pandas Series over the bins: a sequence of [label, value]
Resample(df, rule, how) ==
    LET ax    == GrouperSort(df)
        edges == BinEdges(ax, rule)
    IN  [k \in 1..(Len(edges) - 1) |->
            [label |-> BinLabel(edges, k), value |-> Reduce(how, BinRows(ax, edges, k))]]

-----------------------------------------------------------------------------
(* Aggregator *)

aggregate_open(df, rule)   == IF FrameEmpty(df) THEN <<>> ELSE Resample(df, rule, "first")
aggregate_high(df, rule)   == IF FrameEmpty(df) THEN <<>> ELSE Resample(df, rule, "max")
aggregate_low(df, rule)    == IF FrameEmpty(df) THEN <<>> ELSE Resample(df, rule, "min")
aggregate_close(df, rule)  == IF FrameEmpty(df) THEN <<>> ELSE Resample(df, rule, "last")
aggregate_volume(df, rule) == IF FrameEmpty(df) THEN <<>> ELSE Resample(df, rule, "sum")

\* pd.DataFrame(resampled_data): the five series side by side
CombineSeries(o, h, l, c, v) ==
    [k \in 1..Len(o) |->
        [ts |-> o[k].label, open |-> o[k].value, high |-> h[k].value,
         low |-> l[k].value, close |-> c[k].value, volume |-> v[k].value]]

\* (mutation) the periods without data are kept
DropEmptyPeriodsNone(rows) == rows

\* dropna(subset=ohlc_columns, how='all')
DropEmptyPeriods(rows) ==
    SelectSeq(rows, LAMBDA r : ~(r.open = NaN /\ r.high = NaN /\ r.low = NaN /\ r.close = NaN))

\* resampled['volume'].fillna(0)
FillVolume(rows) ==
    [k \in 1..Len(rows) |->
        IF rows[k].volume = NaN THEN [rows[k] EXCEPT !.volume = 0] ELSE rows[k]]

\* a comparison with NaN is false
InvalidHL(r) == IsNum(r.high) /\ IsNum(r.low) /\ r.high < r.low

\* (mutation) the low is raised to the high's place: low = high
RepairLowToHigh(rows) ==
    [k \in 1..Len(rows) |->
        IF InvalidHL(rows[k]) THEN [rows[k] EXCEPT !.low = rows[k].high] ELSE rows[k]]

\* resampled.loc[invalid_hl, 'high'] = resampled.loc[invalid_hl, 'low']
RepairHighLow(rows) ==
    [k \in 1..Len(rows) |->
        IF InvalidHL(rows[k]) THEN [rows[k] EXCEPT !.high = rows[k].low] ELSE rows[k]]

aggregate_ohlcv_advanced(df, rule) ==
    IF FrameEmpty(df) THEN df
    ELSE LET combined == CombineSeries(aggregate_open(df, rule), aggregate_high(df, rule),
                                       aggregate_low(df, rule), aggregate_close(df, rule),
                                       aggregate_volume(df, rule))
         IN  [tz |-> df.tz, rows |-> RepairHighLow(FillVolume(DropEmptyPeriods(combined)))]

AggregateOhlcv(df, rule) == aggregate_ohlcv_advanced(df, rule)

-----------------------------------------------------------------------------
(* Integrity Validator *)

TotalVolume(df) == SeqSum([i \in 1..Len(df.rows) |-> df.rows[i].volume])

Less(x, y) == IsNum(x) /\ IsNum(y) /\ x < y

InvalidOhlc(r) ==
    \/ Less(r.high, r.low)
    \/ Less(r.high, r.open)
    \/ Less(r.high, r.close)
    \/ Less(r.open, r.low)
    \/ Less(r.close, r.low)

DateRange(df) ==
    IF FrameEmpty(df) THEN <<>> ELSE <<df.rows[1].ts, df.rows[Len(df.rows)].ts>>

\* (mutation) a low reduction ratio counts as a failed check
ValidateDataIntegrityStrict(original_df, resampled_df) ==
    LET original_volume  == IF FrameEmpty(original_df) THEN 0 ELSE TotalVolume(original_df)
        resampled_volume == IF FrameEmpty(resampled_df) THEN 0 ELSE TotalVolume(resampled_df)
        mismatch == original_volume # resampled_volume
        invalid  == SelectSeq(resampled_df.rows, InvalidOhlc)
        bad_ohlc == ~FrameEmpty(resampled_df) /\ invalid # <<>>
        low_reduction == Len(original_df.rows) > 0
                         /\ 10 * Len(resampled_df.rows) > 9 * Len(original_df.rows)
    IN  [valid    |-> ~mismatch /\ ~bad_ohlc /\ ~low_reduction,
         errors   |-> (IF mismatch THEN <<"Volume mismatch">> ELSE <<>>)
                      \o (IF bad_ohlc THEN <<"Invalid OHLC relationships">> ELSE <<>>),
         warnings |-> IF low_reduction THEN <<"Low data reduction ratio">> ELSE <<>>,
         stats    |-> [original_records     |-> Len(original_df.rows),
                       resampled_records    |-> Len(resampled_df.rows),
                       original_volume      |-> original_volume,
                       resampled_volume     |-> resampled_volume,
                       date_range_original  |-> DateRange(original_df),
                       date_range_resampled |-> DateRange(resampled_df)]]

ValidateDataIntegrity(original_df, resampled_df) ==
    LET original_volume  == IF FrameEmpty(original_df) THEN 0 ELSE TotalVolume(original_df)
        resampled_volume == IF FrameEmpty(resampled_df) THEN 0 ELSE TotalVolume(resampled_df)
        \* abs(a - b) > 0.01 on integers
        mismatch == original_volume # resampled_volume
        invalid  == SelectSeq(resampled_df.rows, InvalidOhlc)
        bad_ohlc == ~FrameEmpty(resampled_df) /\ invalid # <<>>
        \* len(resampled) / len(original) > 0.9
        low_reduction == Len(original_df.rows) > 0
                         /\ 10 * Len(resampled_df.rows) > 9 * Len(original_df.rows)
    IN  [valid    |-> ~mismatch /\ ~bad_ohlc,
         errors   |-> (IF mismatch THEN <<"Volume mismatch">> ELSE <<>>)
                      \o (IF bad_ohlc THEN <<"Invalid OHLC relationships">> ELSE <<>>),
         warnings |-> IF low_reduction THEN <<"Low data reduction ratio">> ELSE <<>>,
         stats    |-> [original_records     |-> Len(original_df.rows),
                       resampled_records    |-> Len(resampled_df.rows),
                       original_volume      |-> original_volume,
                       resampled_volume     |-> resampled_volume,
                       date_range_original  |-> DateRange(original_df),
                       date_range_resampled |-> DateRange(resampled_df)]]

\* resample(df, target_timeframe): Invalid when _validate_timeframe raises
ResampleFrame(df, target_timeframe) ==
    IF ValidateTimeframe(target_timeframe) = Invalid THEN Invalid
    ELSE AggregateOhlcv(df, ValidateTimeframe(target_timeframe))

-----------------------------------------------------------------------------
(* Inputs: StockData records [date, time, open, high, low, close, volume]. *)
(* (date, time) is unique per symbol and exchange (the table's unique      *)
(* constraint), every column is NOT NULL.                                   *)

\* one exchange of the zone table and one that is not in it
Exchanges == {"NSE", "MCX"}

\* the (date, time) points candles are drawn from, per target timeframe: points
\* in one bucket, on a bucket boundary, in adjacent buckets and across a gap
Grid(tf) ==
    CASE tf = "1m"  -> {<<0, 555>>, <<0, 556>>, <<0, 558>>}
      [] tf = "5m"  -> {<<0, 555>>, <<0, 556>>, <<0, 560>>, <<0, 570>>}
      [] tf = "15m" -> {<<0, 555>>, <<0, 556>>, <<0, 570>>, <<0, 600>>}
      [] tf = "30m" -> {<<0, 555>>, <<0, 556>>, <<0, 570>>, <<0, 630>>}
      [] tf = "1h"  -> {<<0, 555>>, <<0, 556>>, <<0, 600>>, <<0, 720>>}
      [] tf = "1d"  -> {<<0, 555>>, <<0, 556>>, <<1, 0>>, <<3, 555>>}
      [] tf = "1w"  -> {<<0, 555>>, <<6, 555>>, <<7, 0>>, <<21, 555>>}
      [] tf = "1M"  -> {<<0, 555>>, <<30, 555>>, <<31, 0>>, <<95, 0>>}
      [] OTHER      -> {<<0, 555>>, <<0, 556>>}

\* candles whose prices are ordered low <= open, close <= high
CandleValues ==
    {v \in [open : Prices, high : Prices, low : Prices, close : Prices, volume : Volumes] :
        v.low <= v.open /\ v.open <= v.high /\ v.low <= v.close /\ v.close <= v.high}

PointBefore(p, q) == At(p[1], p[2]) < At(q[1], q[2])

\* the points of T in chronological order
RECURSIVE Chronological(_)
Chronological(T) ==
    IF T = {} THEN <<>>
    ELSE LET p == CHOOSE x \in T : \A y \in T \ {x} : PointBefore(x, y)
         IN  <<p>> \o Chronological(T \ {p})

Reverse(s) == [i \in 1..Len(s) |-> s[Len(s) + 1 - i]]

\* the records at the points T with the values f, oldest first or newest first
Records(T, f, newest_first) ==
    LET pts  == Chronological(T)
        recs == [i \in 1..Len(pts) |->
                    [date |-> pts[i][1], time |-> pts[i][2],
                     open |-> f[pts[i]].open, high |-> f[pts[i]].high,
                     low |-> f[pts[i]].low, close |-> f[pts[i]].close,
                     volume |-> f[pts[i]].volume]]
    IN  IF newest_first THEN Reverse(recs) ELSE recs

PointSets(tf, n) == {T \in SUBSET Grid(tf) : Cardinality(T) <= n}

-----------------------------------------------------------------------------
(* SpecAgg: Series Builder, Aggregator and Integrity Validator on one list *)

NotYet == "not yet"
Raised == "raised"
Unused == "unused"

\* no entry point of a DataResampler instance is called
CallUnused ==
    /\ pc = Unused /\ entry = Unused /\ stored = <<>> /\ chunk_size = 0
    /\ args = Unused /\ progress = <<>> /\ queries = Unused /\ source = <<>>
    /\ cur_df = Unused /\ cur_resampled = Unused /\ acc = <<>> /\ offset = 0
    /\ processed = 0 /\ idx = 0 /\ raised = <<>> /\ result = Unused
    /\ results = Unused

\* the list-level pipeline is not exercised
AggUnused ==
    /\ a_pc = Unused /\ a_data = <<>> /\ a_exchange = Unused /\ a_tf = Unused
    /\ a_df = Unused /\ a_resampled = Unused /\ a_validation = Unused

\* the components named in the set used are exercised, the others are not
ExtUnusedBut(used) ==
    /\ IF "pair" \in used THEN TRUE ELSE pair = Unused
    /\ IF "opt" \in used THEN TRUE ELSE opt = Unused
    /\ IF "bulk" \in used THEN TRUE ELSE bulk = Unused
    /\ IF "limiter" \in used THEN TRUE ELSE limiter = Unused
    /\ IF "fetcher" \in used THEN TRUE ELSE fetcher = Unused
    /\ IF "sched" \in used THEN TRUE ELSE sched = Unused

ExtUnused == ExtUnusedBut({})

AggInit ==
    /\ a_pc = "raw"
    /\ a_tf \in TimeframeCodes
    /\ a_exchange \in Exchanges
    /\ \E T \in PointSets(a_tf, MaxCandles) :
         \E f \in [T -> CandleValues] :
           \E newest_first \in BOOLEAN :
             a_data = Records(T, f, newest_first)
    /\ a_df = NotYet
    /\ a_resampled = NotYet
    /\ a_validation = NotYet
    /\ CallUnused
    /\ ExtUnused

\* df = _prepare_dataframe(data, exchange)
PrepareStep ==
    /\ a_pc = "raw"
    /\ a_df' = PrepareDataframe(a_data, a_exchange)
    /\ a_pc' = "prepared"
    /\ UNCHANGED <<a_data, a_exchange, a_tf, a_resampled, a_validation>>
    /\ UNCHANGED <<callVars, extVars>>

\* resampled_df = resample(df, target_timeframe)
ResampleStep ==
    /\ a_pc = "prepared"
    /\ a_resampled' = ResampleFrame(a_df, a_tf)
    /\ a_pc' = IF ValidateTimeframe(a_tf) = Invalid THEN Raised ELSE "aggregated"
    /\ UNCHANGED <<a_data, a_exchange, a_tf, a_df, a_validation>>
    /\ UNCHANGED <<callVars, extVars>>

\* validation = _validate_data_integrity(df, resampled_df)
ValidateStep ==
    /\ a_pc = "aggregated"
    /\ a_validation' = ValidateDataIntegrity(a_df, a_resampled)
    /\ a_pc' = "validated"
    /\ UNCHANGED <<a_data, a_exchange, a_tf, a_df, a_resampled>>
    /\ UNCHANGED <<callVars, extVars>>

AggNext == PrepareStep \/ ResampleStep \/ ValidateStep

SpecAgg == AggInit /\ [][AggNext]_vars

-----------------------------------------------------------------------------
(* Spec: one call of resample_data, resample_to_standard_timeframes or      *)
(* resample on a DataResampler whose progress sink is set.                  *)

MaxRows == 3
MaxChunk == 2

\* the minutes the stored 1-minute rows are drawn from
StoredGrid == {<<0, 555>>, <<0, 556>>, <<0, 559>>, <<0, 560>>}

\* stored candles: a rising one, a falling one and one whose open lies above its
\* high (the table does not constrain the order of the prices)
StoredValues ==
    {[open |-> 1, high |-> 2, low |-> 1, close |-> 2, volume |-> 1],
     [open |-> 2, high |-> 2, low |-> 1, close |-> 1, volume |-> 2],
     [open |-> 2, high |-> 1, low |-> 1, close |-> 1, volume |-> 1]}

SourceCodes == {"1m", "5m"}

\* target codes of the calls: no compression, intraday, daily, and two codes
\* that are not in SUPPORTED_TIMEFRAMES
CallTargets == {"1m", "5m", "1d", "2m", "3m"}

\* how many exceptions the environment (storage, pandas, the progress sink)
\* raises during one call
MaxFaults == 1

\* target_timeframes arguments; <<>> stands for None (the standard set)
TargetLists == {<<>>, <<"5m", "2m", "1d">>, <<"1w", "1m">>, <<"3m">>}

NoKey == "absent"

ErrTimeframe == "Unsupported timeframe"
ErrSource    == "Currently only '1m' source timeframe is supported"
ErrNoData    == "No data found"
ErrNoData1m  == "No 1m data found"
ErrTarget    == "Invalid timeframe conversion"
ErrDatabase  == "database error"
ErrLocalize  == "tz_localize error"
ErrAggregate == "aggregation error"
ErrCallback  == "progress callback error"

\* get_standard_timeframes, in the table's order
StandardList == <<"5m", "15m", "30m", "1h", "1d">>

\* validate_timeframe_conversion; a missing conversion factor is <<>>
ValidateTimeframeConversion(source_tf, target_tf) ==
    IF source_tf # "1m"
    THEN [valid |-> FALSE, warnings |-> <<>>, errors |-> <<ErrSource>>,
          conversion_factor |-> <<>>, efficiency |-> "optimal"]
    ELSE IF target_tf \notin STANDARD_TIMEFRAMES /\ target_tf \notin DOMAIN SUPPORTED_TIMEFRAMES
    THEN [valid |-> FALSE, warnings |-> <<>>, errors |-> <<ErrTimeframe>>,
          conversion_factor |-> <<>>, efficiency |-> "optimal"]
    ELSE [valid |-> TRUE,
          warnings |-> IF target_tf \notin STANDARD_TIMEFRAMES
                       THEN <<"supported but not in standard set">> ELSE <<>>,
          errors |-> <<>>,
          conversion_factor |->
              CASE target_tf \in {"5m", "15m", "30m"} -> <<TickMinutes(SUPPORTED_TIMEFRAMES[target_tf])>>
                [] target_tf = "1h" -> <<1 * 60>>
                [] target_tf = "1d" -> <<1 * MinutesPerDay>>
                [] OTHER -> <<>>,
          efficiency |->
              CASE target_tf \in {"5m", "15m", "30m"} -> "optimal"
                [] target_tf = "1h" -> "good"
                [] target_tf = "1d" -> "moderate"
                [] OTHER -> "unknown"]

\* a returned dictionary; a key the dictionary lacks is NoKey
FailureResult(message) ==
    [success |-> FALSE, error |-> message, data |-> <<>>, warnings |-> <<>>,
     errors |-> <<>>, total_records |-> 0, processing_method |-> NoKey]

\* one output dictionary of a frame's row: timestamp.isoformat() shows the wall
\* clock and the offset
RowDict(row, off) ==
    [datetime |-> <<Local(row.ts, off), off>>,
     date     |-> Local(row.ts, off) \div MinutesPerDay,
     time     |-> Local(row.ts, off) % MinutesPerDay,
     open     |-> row.open,
     high     |-> row.high,
     low      |-> row.low,
     close    |-> row.close,
     volume   |-> row.volume]

FrameDicts(frame) ==
    [k \in 1..Len(frame.rows) |-> RowDict(frame.rows[k], FrameOffset(frame))]

\* the dictionary _resample_small_dataset and the multi-timeframe loop build
ValidatedResult(frame, validation) ==
    [success |-> validation.valid,
     error |-> NoKey,
     data |-> FrameDicts(frame),
     warnings |-> validation.warnings,
     errors |-> IF ~validation.valid THEN validation.errors ELSE <<>>,
     total_records |-> Len(frame.rows),
     processing_method |-> NoKey]

\* r goes after every dictionary whose 'datetime' is <= its own
RECURSIVE InsertByDatetime(_, _)
InsertByDatetime(r, s) ==
    IF s = <<>> THEN <<r>>
    ELSE IF Head(s).datetime[1] <= r.datetime[1]
         THEN <<Head(s)>> \o InsertByDatetime(r, Tail(s))
         ELSE <<r>> \o s

\* all_resampled_data.sort(key=lambda x: x['datetime'])
RECURSIVE SortByDatetime(_)
SortByDatetime(s) ==
    IF s = <<>> THEN <<>>
    ELSE InsertByDatetime(s[Len(s)], SortByDatetime(SubSeq(s, 1, Len(s) - 1)))

ChunkedResult(data) ==
    [success |-> TRUE, error |-> NoKey, data |-> data, warnings |-> <<>>,
     errors |-> <<>>, total_records |-> Len(data), processing_method |-> "chunked"]

\* (mutation) the offset is taken as the index of the page's first row
PageFromIndex(rows, o, n) ==
    IF o >= Len(rows) THEN <<>>
    ELSE SubSeq(rows, IF o = 0 THEN 1 ELSE o, IF o + n <= Len(rows) THEN o + n ELSE Len(rows))

\* (mutation) the page holds one row more than the limit
PageOverlapping(rows, o, n) ==
    IF o >= Len(rows) THEN <<>>
    ELSE SubSeq(rows, o + 1, IF o + n + 1 <= Len(rows) THEN o + n + 1 ELSE Len(rows))

\* query.offset(o).limit(n).all()
Page(rows, o, n) ==
    IF o >= Len(rows) THEN <<>>
    ELSE SubSeq(rows, o + 1, IF o + n <= Len(rows) THEN o + n ELSE Len(rows))

\* (mutation) the share of processed records is scaled to 100 and not to 80
ChunkProgressFull(done, total) == ((done * 100) \div total) + 20

\* int((processed_records / total_records) * 80) + 20
ChunkProgress(done, total) == ((done * 80) \div total) + 20

\* _update_progress(completed, 100, ...): the sink receives (completed, total)
Report(seq, completed) == Append(seq, <<completed, 100>>)

\* the records at the points T with the values f, in the query's order
StoredRows(T, f) == Records(T, f, FALSE)

NoQueries == [count |-> 0, all |-> 0, pages |-> <<>>]

CallInit ==
    /\ pc = "idle"
    /\ entry = "none"
    /\ \E T \in {P \in SUBSET StoredGrid : Cardinality(P) <= MaxRows} :
         \E f \in [T -> StoredValues] : stored = StoredRows(T, f)
    /\ chunk_size \in 1..MaxChunk
    /\ args = [exchange |-> "", source_timeframe |-> "", target_timeframe |-> "",
               target_timeframes |-> <<>>]
    /\ progress = <<>>
    /\ queries = NoQueries
    /\ source = <<>>
    /\ cur_df = EmptyFrame
    /\ cur_resampled = EmptyFrame
    /\ acc = <<>>
    /\ offset = 0
    /\ processed = 0
    /\ idx = 0
    /\ raised = <<>>
    /\ result = FailureResult(NoKey)
    /\ results = <<>>
    /\ AggUnused
    /\ ExtUnused

\* (mutation) the try block of resample_data starts after the validation
HandlerAfterValidation(position) ==
    CASE position \in {"rd_count", "rd_fetch", "rd_prepare",
                       "rd_aggregate", "rd_finish", "rd_page", "rd_sort"} -> "resample_data"
      [] position \in {"m_fetch", "m_prepare"} -> "multi_outer"
      [] position = "m_each" -> "multi_inner"
      [] OTHER -> "none"

\* (mutation) the try block of resample_data ends before the two helpers
\* _resample_small_dataset and _resample_large_dataset are called
HandlerWithoutHelpers(position) ==
    CASE position \in {"rd_validate", "rd_count"} -> "resample_data"
      [] position \in {"m_fetch", "m_prepare"} -> "multi_outer"
      [] position = "m_each" -> "multi_inner"
      [] OTHER -> "none"

\* the try block that encloses the statement at a position: the handler that
\* turns an exception raised there into a returned dictionary
Handler(position) ==
    CASE position \in {"rd_validate", "rd_count", "rd_fetch", "rd_prepare",
                       "rd_aggregate", "rd_finish", "rd_page", "rd_sort"} -> "resample_data"
      [] position \in {"m_fetch", "m_prepare"} -> "multi_outer"
      [] position = "m_each" -> "multi_inner"
      [] OTHER -> "none"

\* the list target_timeframes stands for
TargetsOf(a) == IF a.target_timeframes = <<>> THEN StandardList ELSE a.target_timeframes

Codes(list) == {list[i] : i \in 1..Len(list)}

\* the exceptions the code raises itself; the others come from its environment
OwnErrors == {ErrTimeframe, ErrSource}

EnvFaults == Len(SelectSeq(raised, LAMBDA e : e.message \notin OwnErrors))

\* an exception with the given message is raised at the current position
Throw(message) ==
    /\ message \in OwnErrors \/ EnvFaults < MaxFaults
    /\ raised' = Append(raised, [at |-> pc, tf |-> IF pc = "m_each" THEN TargetsOf(args)[idx] ELSE "",
                                 message |-> message])
    /\ CASE Handler(pc) = "resample_data" ->
              /\ result' = FailureResult(message)
              /\ pc' = "returned"
              /\ UNCHANGED <<results, idx>>
         [] Handler(pc) = "multi_outer" ->
              /\ results' = [tf \in Codes(TargetsOf(args)) |-> FailureResult(message)]
              /\ pc' = "returned"
              /\ UNCHANGED <<result, idx>>
         [] Handler(pc) = "multi_inner" ->
              /\ results' = [tf \in DOMAIN results \cup {TargetsOf(args)[idx]} |->
                                IF tf = TargetsOf(args)[idx] THEN FailureResult(message)
                                ELSE results[tf]]
              /\ idx' = idx + 1
              /\ pc' = IF idx + 1 > Len(TargetsOf(args)) THEN "returned" ELSE "m_each"
              /\ UNCHANGED result
         [] OTHER ->
              /\ pc' = "propagated"
              /\ UNCHANGED <<result, results, idx>>

\* (mutation) every source timeframe is let through
SourceSupportedAny(source_timeframe) == TRUE

\* "if source_timeframe != '1m': raise ValueError"
SourceSupported(source_timeframe) == source_timeframe = "1m"

\* (mutation) an empty query result is processed like any other
NoRecordsNever(total_records) == FALSE

\* "if total_records == 0"
NoRecords(total_records) == total_records = 0

\* (mutation) a count that equals chunk_size is paged as well
ChunkedFromThreshold(total_records, size) == total_records >= size

\* "if total_records > self.chunk_size"
Chunked(total_records, size) == total_records > size

\* what a call never changes once it has started
Fixed == UNCHANGED <<entry, stored, chunk_size, args, aggVars, extVars>>

\* control passes to the next position
Proceed(next) ==
    /\ pc' = next
    /\ UNCHANGED <<raised, result, results, idx>>

\* resample_data returns
Return(dict) ==
    /\ pc' = "returned"
    /\ result' = dict
    /\ UNCHANGED <<raised, results, idx>>

Total == Len(stored)

-----------------------------------------------------------------------------
(* resample_data *)

RD_Call(exchange, source_tf, target_tf) ==
    /\ pc = "idle"
    /\ pc' = "rd_validate"
    /\ entry' = "resample_data"
    /\ args' = [args EXCEPT !.exchange = exchange, !.source_timeframe = source_tf,
                            !.target_timeframe = target_tf]
    /\ UNCHANGED <<stored, chunk_size, aggVars, extVars, progress, queries, source, cur_df,
                   cur_resampled, acc, offset, processed, idx, raised, result, results>>

\* _validate_timeframe(target), the source check, progress 0 and 10
RD_Validate ==
    /\ pc = "rd_validate"
    /\ Fixed
    /\ UNCHANGED <<queries, source, cur_df, cur_resampled, acc, offset, processed>>
    /\ \/ /\ ValidateTimeframe(args.target_timeframe) = Invalid
          /\ Throw(ErrTimeframe)
          /\ UNCHANGED progress
       \/ /\ ValidateTimeframe(args.target_timeframe) # Invalid
          /\ ~SourceSupported(args.source_timeframe)
          /\ Throw(ErrSource)
          /\ UNCHANGED progress
       \/ /\ ValidateTimeframe(args.target_timeframe) # Invalid
          /\ SourceSupported(args.source_timeframe)
          /\ \/ /\ progress' = Report(Report(progress, 0), 10)
                /\ Proceed("rd_count")
             \/ /\ progress' = Report(progress, 0)
                /\ Throw(ErrCallback)

\* query.count(), the empty case, progress 20 and the choice of the path
RD_Count ==
    /\ pc = "rd_count"
    /\ Fixed
    /\ queries' = [queries EXCEPT !.count = @ + 1]
    /\ UNCHANGED <<source, cur_df, cur_resampled, acc, offset, processed>>
    /\ \/ /\ Throw(ErrDatabase)
          /\ UNCHANGED progress
       \/ /\ NoRecords(Total)
          /\ Return(FailureResult(ErrNoData))
          /\ UNCHANGED progress
       \/ /\ ~NoRecords(Total)
          /\ progress' = Report(progress, 20)
          /\ \/ Proceed(IF Chunked(Total, chunk_size) THEN "rd_page" ELSE "rd_fetch")
             \/ Throw(ErrCallback)

\* _resample_small_dataset(query.all(), ...): the fetch and progress 30
RD_Fetch ==
    /\ pc = "rd_fetch"
    /\ Fixed
    /\ queries' = [queries EXCEPT !.all = @ + 1]
    /\ UNCHANGED <<cur_df, cur_resampled, acc, offset, processed>>
    /\ \/ /\ Throw(ErrDatabase)
          /\ UNCHANGED <<source, progress>>
       \/ /\ source' = stored
          /\ progress' = Report(progress, 30)
          /\ \/ Proceed("rd_prepare")
             \/ Throw(ErrCallback)

\* df = _prepare_dataframe(data, exchange) and progress 50
RD_Prepare ==
    /\ pc = "rd_prepare"
    /\ Fixed
    /\ UNCHANGED <<queries, source, cur_resampled, acc, offset, processed>>
    /\ \/ /\ Throw(ErrLocalize)
          /\ UNCHANGED <<cur_df, progress>>
       \/ /\ cur_df' = PrepareDataframe(source, args.exchange)
          /\ progress' = Report(progress, 50)
          /\ \/ Proceed("rd_aggregate")
             \/ Throw(ErrCallback)

\* resampled_df = _aggregate_ohlcv(df, _validate_timeframe(target)) and progress 80
RD_Aggregate ==
    /\ pc = "rd_aggregate"
    /\ Fixed
    /\ UNCHANGED <<queries, source, cur_df, acc, offset, processed>>
    /\ \/ /\ Throw(ErrAggregate)
          /\ UNCHANGED <<cur_resampled, progress>>
       \/ /\ cur_resampled' = AggregateOhlcv(cur_df, ValidateTimeframe(args.target_timeframe))
          /\ progress' = Report(progress, 80)
          /\ \/ Proceed("rd_finish")
             \/ Throw(ErrCallback)

\* the validation, the output list, progress 100 and the returned dictionary
RD_Finish ==
    /\ pc = "rd_finish"
    /\ Fixed
    /\ UNCHANGED <<queries, source, cur_df, cur_resampled, acc, offset, processed>>
    /\ progress' = Report(progress, 100)
    /\ \/ Return(ValidatedResult(cur_resampled, ValidateDataIntegrity(cur_df, cur_resampled)))
       \/ Throw(ErrCallback)

\* one turn of the loop of _resample_large_dataset
RD_Page ==
    /\ pc = "rd_page"
    /\ Fixed
    /\ queries' = [queries EXCEPT !.pages = Append(@, <<offset, chunk_size>>)]
    /\ LET chunk_data      == Page(stored, offset, chunk_size)
           chunk_df        == PrepareDataframe(chunk_data, args.exchange)
           chunk_resampled == AggregateOhlcv(chunk_df, ValidateTimeframe(args.target_timeframe))
           done            == processed + Len(chunk_data)
       IN  \/ /\ Throw(ErrDatabase)
              /\ UNCHANGED <<source, cur_df, cur_resampled, acc, offset, processed, progress>>
           \/ /\ Throw(ErrLocalize)
              /\ source' = chunk_data
              /\ UNCHANGED <<cur_df, cur_resampled, acc, offset, processed, progress>>
           \/ /\ Throw(ErrAggregate)
              /\ source' = chunk_data
              /\ cur_df' = chunk_df
              /\ UNCHANGED <<cur_resampled, acc, offset, processed, progress>>
           \/ /\ source' = chunk_data
              /\ IF chunk_data = <<>>
                 THEN /\ Proceed("rd_sort")
                      /\ UNCHANGED <<cur_df, cur_resampled, acc, offset, processed, progress>>
                 ELSE /\ cur_df' = chunk_df
                      /\ cur_resampled' = chunk_resampled
                      /\ acc' = acc \o FrameDicts(chunk_resampled)
                      /\ processed' = done
                      /\ progress' = Report(progress, ChunkProgress(done, Total))
                      /\ \/ /\ offset' = offset + chunk_size
                            /\ Proceed(IF offset + chunk_size < Total THEN "rd_page" ELSE "rd_sort")
                         \/ /\ Throw(ErrCallback)
                            /\ UNCHANGED offset

\* the final sort, progress 100 and the returned dictionary
RD_Sort ==
    /\ pc = "rd_sort"
    /\ Fixed
    /\ UNCHANGED <<queries, source, cur_df, cur_resampled, offset, processed>>
    /\ acc' = SortByDatetime(acc)
    /\ progress' = Report(progress, 100)
    /\ \/ Return(ChunkedResult(SortByDatetime(acc)))
       \/ Throw(ErrCallback)

-----------------------------------------------------------------------------
(* resample_to_standard_timeframes *)

M_Call(exchange, targets) ==
    /\ pc = "idle"
    /\ pc' = "m_validate"
    /\ entry' = "resample_to_standard_timeframes"
    /\ args' = [args EXCEPT !.exchange = exchange, !.source_timeframe = "1m",
                            !.target_timeframes = targets]
    /\ UNCHANGED <<stored, chunk_size, aggVars, extVars, progress, queries, source, cur_df,
                   cur_resampled, acc, offset, processed, idx, raised, result, results>>

\* (mutation) one invalid target fails the whole batch
M_ValidateAll ==
    /\ pc = "m_validate"
    /\ Fixed
    /\ LET bad == {c \in Codes(TargetsOf(args)) : ~ValidateTimeframeConversion("1m", c).valid}
       IN  IF bad = {}
           THEN results' = <<>> /\ pc' = "m_fetch"
           ELSE /\ results' = [tf \in Codes(TargetsOf(args)) |-> FailureResult(ErrTarget)]
                /\ pc' = "returned"
    /\ UNCHANGED <<progress, queries, source, cur_df, cur_resampled, acc, offset,
                   processed, idx, raised, result>>

\* "Validate all timeframes first"
M_Validate ==
    /\ pc = "m_validate"
    /\ Fixed
    /\ results' = [tf \in {c \in Codes(TargetsOf(args)) :
                              ~ValidateTimeframeConversion("1m", c).valid} |->
                      FailureResult(ErrTarget)]
    /\ pc' = "m_fetch"
    /\ UNCHANGED <<progress, queries, source, cur_df, cur_resampled, acc, offset,
                   processed, idx, raised, result>>

\* source_data = query.all() and the empty case
M_Fetch ==
    /\ pc = "m_fetch"
    /\ Fixed
    /\ queries' = [queries EXCEPT !.all = @ + 1]
    /\ UNCHANGED <<progress, cur_df, cur_resampled, acc, offset, processed>>
    /\ \/ /\ Throw(ErrDatabase)
          /\ UNCHANGED source
       \/ /\ source' = stored
          /\ UNCHANGED <<raised, result, idx>>
          /\ IF stored = <<>>
             THEN /\ results' = [tf \in Codes(TargetsOf(args)) |-> FailureResult(ErrNoData1m)]
                  /\ pc' = "returned"
             ELSE /\ pc' = "m_prepare"
                  /\ UNCHANGED results

\* source_df = _prepare_dataframe(source_data, exchange)
M_Prepare ==
    /\ pc = "m_prepare"
    /\ Fixed
    /\ UNCHANGED <<progress, queries, source, cur_resampled, acc, offset, processed>>
    /\ \/ /\ Throw(ErrLocalize)
          /\ UNCHANGED cur_df
       \/ /\ cur_df' = PrepareDataframe(source, args.exchange)
          /\ pc' = "m_each"
          /\ idx' = 1
          /\ UNCHANGED <<raised, result, results>>

\* (mutation) every turn of the loop fetches the source rows again
M_EachFetching ==
    /\ pc = "m_each"
    /\ Fixed
    /\ queries' = [queries EXCEPT !.all = @ + 1]
    /\ UNCHANGED <<progress, source, cur_df, acc, offset, processed>>
    /\ LET tf   == TargetsOf(args)[idx]
           next == IF idx + 1 > Len(TargetsOf(args)) THEN "returned" ELSE "m_each"
       IN  \/ /\ tf \in DOMAIN results
              /\ idx' = idx + 1
              /\ pc' = next
              /\ UNCHANGED <<cur_resampled, raised, result, results>>
           \/ /\ tf \notin DOMAIN results
              /\ Throw(ErrAggregate)
              /\ UNCHANGED cur_resampled
           \/ /\ tf \notin DOMAIN results
              /\ cur_resampled' = aggregate_ohlcv_advanced(cur_df, SUPPORTED_TIMEFRAMES[tf])
              /\ results' = [c \in DOMAIN results \cup {tf} |->
                               IF c = tf
                               THEN ValidatedResult(cur_resampled',
                                        ValidateDataIntegrity(cur_df, cur_resampled'))
                               ELSE results[c]]
              /\ idx' = idx + 1
              /\ pc' = next
              /\ UNCHANGED <<raised, result>>

\* one turn of "for tf in target_timeframes"
M_Each ==
    /\ pc = "m_each"
    /\ Fixed
    /\ UNCHANGED <<progress, queries, source, cur_df, acc, offset, processed>>
    /\ LET tf   == TargetsOf(args)[idx]
           next == IF idx + 1 > Len(TargetsOf(args)) THEN "returned" ELSE "m_each"
       IN  \/ /\ tf \in DOMAIN results
              /\ idx' = idx + 1
              /\ pc' = next
              /\ UNCHANGED <<cur_resampled, raised, result, results>>
           \/ /\ tf \notin DOMAIN results
              /\ Throw(ErrAggregate)
              /\ UNCHANGED cur_resampled
           \/ /\ tf \notin DOMAIN results
              /\ cur_resampled' = aggregate_ohlcv_advanced(cur_df, SUPPORTED_TIMEFRAMES[tf])
              /\ results' = [c \in DOMAIN results \cup {tf} |->
                               IF c = tf
                               THEN ValidatedResult(cur_resampled',
                                        ValidateDataIntegrity(cur_df, cur_resampled'))
                               ELSE results[c]]
              /\ idx' = idx + 1
              /\ pc' = next
              /\ UNCHANGED <<raised, result>>

-----------------------------------------------------------------------------
(* resample, called as the routes call it on the prepared rows *)

R_Call(exchange, target_tf) ==
    /\ pc = "idle"
    /\ pc' = "r_resample"
    /\ entry' = "resample"
    /\ args' = [args EXCEPT !.exchange = exchange, !.target_timeframe = target_tf]
    /\ UNCHANGED <<stored, chunk_size, aggVars, extVars, progress, queries, source, cur_df,
                   cur_resampled, acc, offset, processed, idx, raised, result, results>>

R_Resample ==
    /\ pc = "r_resample"
    /\ Fixed
    /\ source' = stored
    /\ cur_df' = PrepareDataframe(stored, args.exchange)
    /\ UNCHANGED <<progress, queries, acc, offset, processed>>
    /\ IF ValidateTimeframe(args.target_timeframe) = Invalid
       THEN /\ Throw(ErrTimeframe)
            /\ UNCHANGED cur_resampled
       ELSE /\ cur_resampled' = ResampleFrame(cur_df', args.target_timeframe)
            /\ Proceed("returned")

CallNext ==
    \/ \E e \in Exchanges, s \in SourceCodes, t \in CallTargets : RD_Call(e, s, t)
    \/ RD_Validate \/ RD_Count \/ RD_Fetch \/ RD_Prepare \/ RD_Aggregate \/ RD_Finish
    \/ RD_Page \/ RD_Sort
    \/ \E e \in Exchanges, l \in TargetLists : M_Call(e, l)
    \/ M_Validate \/ M_Fetch \/ M_Prepare \/ M_Each
    \/ \E e \in Exchanges, t \in CallTargets : R_Call(e, t)
    \/ R_Resample

Spec == CallInit /\ [][CallNext]_vars

-----------------------------------------------------------------------------
(* What the claims speak of, stated from the calendar and not from the     *)
(* bins the Aggregator builds.                                              *)

AggDone == a_pc \in {"aggregated", "validated"}

MinutesOf(tf) ==
    CASE tf = "1m" -> 1 [] tf = "5m" -> 5 [] tf = "15m" -> 15 [] tf = "30m" -> 30
      [] tf = "1h" -> 60 [] tf = "1d" -> 24 * 60

\* wall-clock start of the window of timeframe tf that holds wall-clock minute m
WindowStart(m, tf) ==
    CASE tf = "1w" -> ((m \div (24 * 60)) - ((m \div (24 * 60)) % 7)) * 24 * 60
      [] tf = "1M" -> MonthStartUpTo(m \div (24 * 60), 1) * 24 * 60
      [] OTHER     -> m - (m % MinutesOf(tf))

\* wall-clock end (exclusive) of the window that starts at wall-clock minute s
WindowEnd(s, tf) ==
    CASE tf = "1w" -> s + 7 * 24 * 60
      [] tf = "1M" -> MonthStartAfter(s \div (24 * 60), 1) * 24 * 60
      [] OTHER     -> s + MinutesOf(tf)

\* wall clock of a record of the input list
WallClock(rec) == rec.date * 24 * 60 + rec.time

\* wall clock of an output row's label in the venue's zone
LabelClock(row) == row.ts + UtcOffset(GetMarketTimezone(a_exchange))

\* the input records in the window labelled by row
Members(row) ==
    {i \in 1..Len(a_data) :
        /\ LabelClock(row) <= WallClock(a_data[i])
        /\ WallClock(a_data[i]) < WindowEnd(LabelClock(row), a_tf)}

Earliest(M) == CHOOSE i \in M : \A j \in M : WallClock(a_data[i]) <= WallClock(a_data[j])
Latest(M)   == CHOOSE i \in M : \A j \in M : WallClock(a_data[j]) <= WallClock(a_data[i])

RECURSIVE VolumeOver(_)
VolumeOver(M) ==
    IF M = {} THEN 0
    ELSE LET i == CHOOSE x \in M : TRUE IN a_data[i].volume + VolumeOver(M \ {i})

ValidCandle(r) ==
    r.low <= r.open /\ r.open <= r.high /\ r.low <= r.close /\ r.close <= r.high

OutRows == {a_resampled.rows[k] : k \in 1..Len(a_resampled.rows)}

C2_VolumeConservation ==
    (a_pc = "validated" /\ \A i \in 1..Len(a_data) : ValidCandle(a_data[i])) =>
        /\ SeqSum([k \in 1..Len(a_resampled.rows) |-> a_resampled.rows[k].volume])
             = VolumeOver(1..Len(a_data))
        /\ a_validation.stats.original_volume = VolumeOver(1..Len(a_data))
        /\ a_validation.stats.original_volume = a_validation.stats.resampled_volume
        /\ a_validation.valid

\* two candles of different volume merged into one bucket, then validated
C2_Witness ==
    /\ a_pc = "validated"
    /\ Len(a_data) >= 2
    /\ Len(a_resampled.rows) = 1
    /\ a_data[1].volume # a_data[2].volume
    /\ a_validation.valid

\* C3: valid input candles give output buckets with low <= open <= high and
\* low <= close <= high.
C3_OhlcInvariant ==
    (AggDone /\ \A i \in 1..Len(a_data) : ValidCandle(a_data[i])) =>
        \A row \in OutRows : ValidCandle(row)

\* a bucket whose high comes from a later candle than its open and lies above
\* its close
C3_Witness ==
    /\ AggDone
    /\ \E row \in OutRows :
          /\ Cardinality(Members(row)) >= 2
          /\ a_data[Earliest(Members(row))].high < row.high
          /\ row.close < row.high

\* C4: the output's labels are exactly the windows that hold a source candle,
\* each once; a window without candles gives no row.
C4_NoEmptyBuckets ==
    AggDone =>
        /\ {LabelClock(row) : row \in OutRows}
             = {WindowStart(WallClock(a_data[i]), a_tf) : i \in 1..Len(a_data)}
        /\ Cardinality({row.ts : row \in OutRows}) = Len(a_resampled.rows)
        /\ \A row \in OutRows : IsNum(row.open) /\ IsNum(row.high)
                                 /\ IsNum(row.low) /\ IsNum(row.close)

\* two output rows with a window without candles between them
C4_Witness ==
    /\ AggDone
    /\ Len(a_resampled.rows) = 2
    /\ WindowEnd(LabelClock(a_resampled.rows[1]), a_tf) < LabelClock(a_resampled.rows[2])

\* C5: the candle at wall-clock time t is in the bucket labelled s, the start
\* of the window aligned to venue-local midnight with s <= t < s + duration; a
\* candle at s + duration is in the next bucket.
C5_LeftClosedBuckets ==
    AggDone =>
        /\ \A i \in 1..Len(a_data) :
              \E row \in OutRows :
                  /\ LabelClock(row) = WindowStart(WallClock(a_data[i]), a_tf)
                  /\ LabelClock(row) <= WallClock(a_data[i])
                  /\ WallClock(a_data[i]) < WindowEnd(LabelClock(row), a_tf)
                  /\ a_data[i].high <= row.high
                  /\ row.low <= a_data[i].low
        /\ \A row \in OutRows :
              /\ LabelClock(row) = WindowStart(LabelClock(row), a_tf)
              /\ row.volume = VolumeOver(Members(row))

\* a candle exactly on the boundary that ends the previous candle's bucket, on
\* an exchange whose zone is not UTC
C5_Witness ==
    /\ AggDone
    /\ a_exchange = "NSE"
    /\ Len(a_resampled.rows) = 2
    /\ LabelClock(a_resampled.rows[2]) = WindowEnd(LabelClock(a_resampled.rows[1]), a_tf)
    /\ \E i \in 1..Len(a_data) : WallClock(a_data[i]) = LabelClock(a_resampled.rows[2])

-----------------------------------------------------------------------------
(* Claims about the registry and the entry points *)

RegistryCodes == {"1m", "5m", "15m", "30m", "1h", "1d", "1w", "1M"}
SpecCodes == {"1m", "3m", "5m", "10m", "15m", "30m", "1h", "1d", "1w", "1M"}

\* resample() has validated a_tf
Validated == a_pc \in {"aggregated", "validated", Raised}

\* C6 as stated: validation succeeds exactly for 1m, 3m, 5m, 10m, 15m, 30m, 1h,
\* 1d, 1w and 1M.
C6_AsStated == Validated => (a_pc # Raised <=> a_tf \in SpecCodes)

\* C6 as amended: validation succeeds exactly for 1m, 5m, 15m, 30m, 1h, 1d, 1w
\* and 1M; 3m and 10m fail like every other code.
C6_RegistryCodes ==
    Validated =>
        /\ a_pc # Raised <=> a_tf \in RegistryCodes
        /\ a_pc = Raised <=> ValidateTimeframe(a_tf) = Invalid

\* the validation of 10m has failed
C6_Witness == a_pc = Raised /\ a_tf = "10m"

IsRD    == entry = "resample_data"
IsMulti == entry = "resample_to_standard_timeframes"
Returned == pc = "returned"

\* C7: an unsupported target makes _validate_timeframe and resample raise, and
\* makes resample_data return success = FALSE, no data and the error, with no
\* storage request made and no progress reported.
C7_InvalidTarget ==
    (entry # "none" /\ ~IsMulti /\ args.target_timeframe \notin RegistryCodes) =>
        /\ ValidateTimeframe(args.target_timeframe) = Invalid
        /\ IsRD => /\ pc \in {"rd_validate", "returned"}
                   /\ queries = NoQueries
                   /\ progress = <<>>
                   /\ source = <<>>
                   /\ Returned => /\ ~result.success
                                  /\ result.data = <<>>
                                  /\ result.error = ErrTimeframe
        /\ entry = "resample" => /\ pc \in {"r_resample", "propagated"}
                                 /\ pc = "propagated" => raised[1].message = ErrTimeframe

\* resample_data has returned for target 2m although rows are stored
C7_Witness ==
    /\ IsRD /\ Returned
    /\ args.target_timeframe = "2m"
    /\ args.source_timeframe = "1m"
    /\ stored # <<>>

\* the part of C8 the code keeps in every case: the call fails with no data and
\* nothing fetched, and validate_timeframe_conversion rejects the source
C8_Fails ==
    /\ \A s \in SourceCodes \ {"1m"}, t \in TimeframeCodes :
          ~ValidateTimeframeConversion(s, t).valid
    /\ (IsRD /\ args.source_timeframe # "1m") =>
          /\ pc \in {"rd_validate", "returned"}
          /\ queries = NoQueries
          /\ source = <<>>
          /\ Returned => ~result.success /\ result.data = <<>>

\* C8 as stated: a source other than 1m gives success = FALSE, no data, the
\* unsupported-source error and no fetch.
C8_AsStated ==
    /\ C8_Fails
    /\ (IsRD /\ Returned /\ args.source_timeframe # "1m") => result.error = ErrSource

\* C8 as amended: the error is the unsupported-source error when the target is
\* supported; with an unsupported target the invalid-timeframe error is
\* reported, because the target is validated first.
C8_UnsupportedSource ==
    /\ C8_Fails
    /\ (IsRD /\ Returned /\ args.source_timeframe # "1m") =>
          result.error = IF args.target_timeframe \in RegistryCodes
                         THEN ErrSource ELSE ErrTimeframe

\* resample_data has returned for source 5m and target 5m although rows are stored
C8_Witness ==
    /\ IsRD /\ Returned
    /\ args.source_timeframe = "5m"
    /\ args.target_timeframe = "5m"
    /\ stored # <<>>
    /\ result.error = ErrSource

EmptySource(e) == entry = e /\ Returned /\ stored = <<>> /\ raised = <<>>

\* C10 as stated: an empty source gives success = TRUE, zero records, no errors.
C10_AsStated ==
    EmptySource("resample_data") =>
        /\ result.success
        /\ Len(result.data) = 0
        /\ result.error = NoKey
        /\ result.errors = <<>>

\* C10 as amended: an empty source gives success = FALSE, zero records and the
\* "No data found" error, from resample_data and, for every requested
\* timeframe, from resample_to_standard_timeframes; nothing is aggregated.
C10_EmptySourceFails ==
    /\ EmptySource("resample_data") =>
          /\ result = FailureResult(ErrNoData)
          /\ queries = [count |-> 1, all |-> 0, pages |-> <<>>]
          /\ cur_resampled = EmptyFrame
    /\ EmptySource("resample_to_standard_timeframes") =>
          /\ DOMAIN results = Codes(TargetsOf(args))
          /\ \A tf \in DOMAIN results : results[tf] = FailureResult(ErrNoData1m)
          /\ queries = [count |-> 0, all |-> 1, pages |-> <<>>]

\* resample_data has returned for 1m to 5m on an empty table
C10_Witness ==
    /\ EmptySource("resample_data")
    /\ args.source_timeframe = "1m"
    /\ args.target_timeframe = "5m"

-----------------------------------------------------------------------------
(* Claims about the two execution paths *)

SingleShotPositions == {"rd_fetch", "rd_prepare", "rd_aggregate", "rd_finish"}
ChunkedPositions    == {"rd_page", "rd_sort"}

\* resample_data found rows, met no exception and returned
Completed == IsRD /\ Returned /\ raised = <<>> /\ stored # <<>>

\* C11: resample_data pages the source exactly when the record count is
\* strictly greater than chunk_size; a count equal to chunk_size is fetched in
\* one query.all(); a result of the paged path, and only such a result, carries
\* processing_method = 'chunked'.
C11_ChunkThreshold ==
    IsRD =>
        /\ pc \in ChunkedPositions => Total > chunk_size
        /\ pc \in SingleShotPositions => Total <= chunk_size
        /\ queries.pages # <<>> => Total > chunk_size
        /\ queries.all > 0 => Total <= chunk_size
        /\ Completed =>
              IF Total > chunk_size
              THEN /\ result.processing_method = "chunked"
                   /\ queries.pages # <<>> /\ queries.all = 0
              ELSE /\ result.processing_method # "chunked"
                   /\ queries.pages = <<>> /\ queries.all = 1
        /\ (Returned /\ result.processing_method = "chunked") =>
              pc = "returned" /\ queries.pages # <<>>

\* a call on exactly chunk_size = 2 rows has completed in one shot
C11_Witness ==
    /\ Completed
    /\ chunk_size = 2
    /\ Total = 2
    /\ queries.all = 1
    /\ result.processing_method = NoKey

-----------------------------------------------------------------------------
(* resample_data on a run of 1-minute rows, with page sizes that do and do *)
(* not divide the 5-minute bucket                                          *)

\* the minutes 09:15, 09:16, ... the run is drawn from
MaxSeries == 7
SeriesWindow == {<<0, 555 + i>> : i \in 0..(MaxSeries - 1)}

SeriesValues ==
    {[open |-> 1, high |-> 2, low |-> 1, close |-> 2, volume |-> 1],
     [open |-> 2, high |-> 2, low |-> 1, close |-> 1, volume |-> 2]}

ChunkSizes == {2, 5}
ChunkTargets == {"1m", "5m", "2m"}

ChunkInit ==
    /\ pc = "idle"
    /\ entry = "none"
    /\ \E T \in SUBSET SeriesWindow :
         \E f \in [T -> SeriesValues] : stored = StoredRows(T, f)
    /\ chunk_size \in ChunkSizes
    /\ args = [exchange |-> "", source_timeframe |-> "", target_timeframe |-> "",
               target_timeframes |-> <<>>]
    /\ progress = <<>>
    /\ queries = NoQueries
    /\ source = <<>>
    /\ cur_df = EmptyFrame
    /\ cur_resampled = EmptyFrame
    /\ acc = <<>>
    /\ offset = 0
    /\ processed = 0
    /\ idx = 0
    /\ raised = <<>>
    /\ result = FailureResult(NoKey)
    /\ results = <<>>
    /\ AggUnused
    /\ ExtUnused

ChunkNext ==
    \/ \E s \in SourceCodes, t \in ChunkTargets : RD_Call("NSE", s, t)
    \/ RD_Validate \/ RD_Count \/ RD_Fetch \/ RD_Prepare \/ RD_Aggregate \/ RD_Finish
    \/ RD_Page \/ RD_Sort

SpecChunk == ChunkInit /\ [][ChunkNext]_vars

\* what _resample_small_dataset makes of all the stored rows at once
SingleShot ==
    FrameDicts(AggregateOhlcv(PrepareDataframe(stored, args.exchange),
                              ValidateTimeframe(args.target_timeframe)))

DataVolume(data) == SeqSum([k \in 1..Len(data) |-> data[k].volume])

\* no minute is missing between the first and the last stored row
GapFree == \A k \in 1..(Len(stored) - 1) : WallClock(stored[k + 1]) = WallClock(stored[k]) + 1

\* the first stored row opens a bucket of the target timeframe
OnBoundary ==
    /\ stored # <<>>
    /\ WindowStart(WallClock(stored[1]), args.target_timeframe) = WallClock(stored[1])

ChunkedCompleted == Completed /\ result.processing_method = "chunked"

\* C12: for a gap-free 1-minute series that starts on a bucket boundary and a
\* chunk_size that is a multiple of the bucket width, the chunked result has as
\* many buckets and the same total volume as the single-shot aggregation of the
\* same rows, a partial last page included.
C12_ChunkedMatchesSingleShot ==
    (/\ ChunkedCompleted
     /\ GapFree
     /\ OnBoundary
     /\ chunk_size % MinutesOf(args.target_timeframe) = 0) =>
        /\ Len(result.data) = Len(SingleShot)
        /\ DataVolume(result.data) = DataVolume(SingleShot)

\* seven rows from 09:15 on went to 5m in a page of five and a page of two
C12_Witness ==
    /\ ChunkedCompleted
    /\ GapFree
    /\ OnBoundary
    /\ args.target_timeframe = "5m"
    /\ chunk_size = 5
    /\ Total = 7
    /\ queries.pages = <<<<0, 5>>, <<5, 5>>>>
    /\ Len(result.data) = 2

-----------------------------------------------------------------------------
(* Claims about the integrity checks *)

\* a returned row breaks the OHLC ordering
OhlcBroken(data) == \E k \in 1..Len(data) : ~ValidCandle(data[k])

StoredVolume == SeqSum([k \in 1..Len(stored) |-> stored[k].volume])

\* C13 as stated: in single-shot and in chunked mode alike, a returned row that
\* breaks the OHLC ordering, or an output volume that differs from the input
\* volume, comes with success = FALSE and an entry in errors, and the data is
\* returned all the same.
C13_AsStated ==
    (Completed /\ (OhlcBroken(result.data) \/ DataVolume(result.data) # StoredVolume)) =>
        /\ ~result.success
        /\ result.errors # <<>>
        /\ result.data # <<>>

\* the chunked path has returned a row that breaks the ordering, with
\* success = TRUE and no error
C13_Witness ==
    /\ Completed
    /\ result.processing_method = "chunked"
    /\ OhlcBroken(result.data)
    /\ result.success
    /\ result.errors = <<>>

\* what the single-shot path does about C13's case
C13_SingleShotOnly ==
    (Completed /\ result.processing_method # "chunked"
       /\ (OhlcBroken(result.data) \/ DataVolume(result.data) # StoredVolume)) =>
        /\ ~result.success
        /\ result.errors # <<>>
        /\ result.data # <<>>

-----------------------------------------------------------------------------
(* _validate_data_integrity on any pair of frames *)

MaxFrame == 2

\* rows of an original frame: a well-formed candle of volume 1 or 2
OriginalValues ==
    {[open |-> 1, high |-> 2, low |-> 1, close |-> 2, volume |-> v] : v \in Volumes}

\* rows of a resampled frame: every order of the four prices, and two volumes
\* for a well-formed candle
ResampledValues ==
    [open : Prices, high : Prices, low : Prices, close : Prices, volume : {1}]
    \cup {[open |-> 1, high |-> 2, low |-> 1, close |-> 2, volume |-> 2]}

\* the frame whose k-th row has the values vals[k], one row every step minutes
FrameOf(vals, step) ==
    IF vals = <<>> THEN EmptyFrame
    ELSE [tz   |-> "Asia/Kolkata",
          rows |-> [k \in 1..Len(vals) |->
                      [ts     |-> Localize(At(0, 555 + step * (k - 1)), "Asia/Kolkata"),
                       open   |-> vals[k].open,
                       high   |-> vals[k].high,
                       low    |-> vals[k].low,
                       close  |-> vals[k].close,
                       volume |-> vals[k].volume]]]

SeqsUpTo(S, n) == UNION {[1..k -> S] : k \in 0..n}

ValInit ==
    /\ a_pc = "frames"
    /\ a_data = <<>>
    /\ a_exchange = "NSE"
    /\ a_tf = "5m"
    /\ \E vals \in SeqsUpTo(OriginalValues, MaxFrame + 1) : a_df = FrameOf(vals, 1)
    /\ \E vals \in SeqsUpTo(ResampledValues, MaxFrame) : a_resampled = FrameOf(vals, 5)
    /\ a_validation = NotYet
    /\ CallUnused
    /\ ExtUnused

\* validation = _validate_data_integrity(original_df, resampled_df)
ValidateFrames ==
    /\ a_pc = "frames"
    /\ a_validation' = ValidateDataIntegrity(a_df, a_resampled)
    /\ a_pc' = "checked"
    /\ UNCHANGED <<a_data, a_exchange, a_tf, a_df, a_resampled>>
    /\ UNCHANGED <<callVars, extVars>>

ValNext == ValidateFrames

SpecVal == ValInit /\ [][ValNext]_vars

RECURSIVE RowsVolume(_)
RowsVolume(rows) == IF rows = <<>> THEN 0 ELSE Head(rows).volume + RowsVolume(Tail(rows))

VolumesDiffer == RowsVolume(a_df.rows) # RowsVolume(a_resampled.rows)
SomeRowBroken == \E k \in 1..Len(a_resampled.rows) : ~ValidCandle(a_resampled.rows[k])
\* len(output) / len(input) > 0.9
WeakCompression ==
    /\ Len(a_df.rows) > 0
    /\ 10 * Len(a_resampled.rows) > 9 * Len(a_df.rows)

\* C14: the validator returns valid = FALSE exactly when the volume totals
\* differ or some output row breaks the OHLC ordering, with one error per
\* failed check; a record-count ratio above 0.9 adds a warning only and leaves
\* valid as it is.
C14_ValidatorVerdict ==
    a_pc = "checked" =>
        /\ a_validation.valid <=> (~VolumesDiffer /\ ~SomeRowBroken)
        /\ Len(a_validation.errors) = (IF VolumesDiffer THEN 1 ELSE 0)
                                      + (IF SomeRowBroken THEN 1 ELSE 0)
        /\ VolumesDiffer <=>
              \E k \in 1..Len(a_validation.errors) : a_validation.errors[k] = "Volume mismatch"
        /\ SomeRowBroken <=>
              \E k \in 1..Len(a_validation.errors) :
                  a_validation.errors[k] = "Invalid OHLC relationships"
        /\ Len(a_validation.warnings) = (IF WeakCompression THEN 1 ELSE 0)

\* two well-formed output rows for two input rows of the same volume: a warning
\* and valid = TRUE
C14_Witness ==
    /\ a_pc = "checked"
    /\ Len(a_df.rows) = 2
    /\ Len(a_resampled.rows) = 2
    /\ WeakCompression
    /\ a_validation.warnings # <<>>
    /\ a_validation.valid

-----------------------------------------------------------------------------
(* The pipeline on candles whose prices are in any order *)

\* every order of the four prices; the volume follows the open
MalformedValues ==
    {[open |-> o, high |-> h, low |-> l, close |-> c, volume |-> o] :
        o \in Prices, h \in Prices, l \in Prices, c \in Prices}

RepairTimeframes == {"5m", "1d"}

RepairInit ==
    /\ a_pc = "raw"
    /\ a_tf \in RepairTimeframes
    /\ a_exchange = "NSE"
    /\ \E T \in PointSets(a_tf, MaxCandles) :
         \E f \in [T -> MalformedValues] :
           \E newest_first \in BOOLEAN :
             a_data = Records(T, f, newest_first)
    /\ a_df = NotYet
    /\ a_resampled = NotYet
    /\ a_validation = NotYet
    /\ CallUnused
    /\ ExtUnused

SpecRepair == RepairInit /\ [][AggNext]_vars

\* the largest high and the smallest low among the records M
MaxHigh(M) == CHOOSE h \in {a_data[i].high : i \in M} : \A j \in M : a_data[j].high <= h
MinLow(M)  == CHOOSE l \in {a_data[i].low : i \in M} : \A j \in M : l <= a_data[j].low

Repaired(row) == MaxHigh(Members(row)) < MinLow(Members(row))

\* the dictionary's warnings, as _resample_small_dataset fills them
ReturnedWarnings == ValidatedResult(a_resampled, a_validation).warnings

\* what C15 says of the rows: a bucket whose largest high lies below its
\* smallest low gets high = low; its open, low, close and volume and every
\* other bucket are as reduced; no row has high < low; nothing is raised
C15_Rows ==
    /\ a_pc # Raised
    /\ AggDone =>
          \A row \in OutRows :
              LET M == Members(row)
              IN  /\ M # {}
                  /\ row.open = a_data[Earliest(M)].open
                  /\ row.low = MinLow(M)
                  /\ row.close = a_data[Latest(M)].close
                  /\ row.volume = VolumeOver(M)
                  /\ row.high = IF Repaired(row) THEN MinLow(M) ELSE MaxHigh(M)
                  /\ ~(row.high < row.low)

\* C15 as stated: the rows are as above and the repair is recorded as a warning
\* in the returned result.
C15_AsStated ==
    /\ C15_Rows
    /\ (a_pc = "validated" /\ \E row \in OutRows : Repaired(row)) =>
          \E k \in 1..Len(ReturnedWarnings) :
              ReturnedWarnings[k] # "Low data reduction ratio"

\* C15 as amended: the rows are as above; the repair is written to the log
\* only, and the returned warnings hold nothing but the validator's
\* reduction-ratio warning.
C15_RepairNotReturned ==
    /\ C15_Rows
    /\ a_pc = "validated" =>
          ReturnedWarnings = IF WeakCompression THEN <<"Low data reduction ratio">> ELSE <<>>

\* two records of one bucket, each with its high below its low, were reduced
\* to one row with high = low, and nothing is in the returned warnings
C15_Witness ==
    /\ a_pc = "validated"
    /\ \E row \in OutRows :
          /\ Cardinality(Members(row)) = 2
          /\ Repaired(row)
          /\ row.high = row.low
    /\ ReturnedWarnings = <<>>

-----------------------------------------------------------------------------
(* The pipeline on lists in any order, repeated timestamps included *)

MaxOrder == 3

\* two minutes of one 5-minute bucket and one of the next
OrderPoints == {<<0, 555>>, <<0, 556>>, <<0, 560>>}

OrderValues ==
    {[open |-> 1, high |-> 2, low |-> 1, close |-> 2, volume |-> 1],
     [open |-> 2, high |-> 2, low |-> 1, close |-> 1, volume |-> 2]}

OrderRecords ==
    {[date |-> p[1], time |-> p[2], open |-> v.open, high |-> v.high, low |-> v.low,
      close |-> v.close, volume |-> v.volume] : p \in OrderPoints, v \in OrderValues}

OrderInit ==
    /\ a_pc = "raw"
    /\ a_tf \in {"1m", "5m"}
    /\ a_exchange = "NSE"
    /\ a_data \in SeqsUpTo(OrderRecords, MaxOrder)
    /\ a_df = NotYet
    /\ a_resampled = NotYet
    /\ a_validation = NotYet
    /\ CallUnused
    /\ ExtUnused

SpecOrder == OrderInit /\ [][AggNext]_vars

\* the list a_data in the order p
Reordered(p) == [k \in 1..Len(a_data) |-> a_data[p[k]]]

Orderings == Permutations(1..Len(a_data))

DistinctTimestamps ==
    \A i, j \in 1..Len(a_data) : i # j => WallClock(a_data[i]) # WallClock(a_data[j])

\* every ordering of the list gives the frame and the rows this run has got
SameForEveryOrdering ==
    \A p \in Orderings :
        /\ PrepareDataframe(Reordered(p), a_exchange) = a_df
        /\ ResampleFrame(PrepareDataframe(Reordered(p), a_exchange), a_tf) = a_resampled

\* C16 as stated: for any collection of candles, every ordering of it gives the
\* same output of Series Builder followed by the Aggregator.
C16_AsStated == AggDone => SameForEveryOrdering

\* C16 as amended: for any collection of candles with pairwise distinct
\* timestamps, every ordering of it gives the same output; with a repeated
\* timestamp the output follows the order of the input.
C16_OrderIndependent == (AggDone /\ DistinctTimestamps) => SameForEveryOrdering

\* three candles with distinct timestamps, given out of order, have been
\* aggregated to 5m
C16_Witness ==
    /\ AggDone
    /\ a_tf = "5m"
    /\ Len(a_data) = 3
    /\ DistinctTimestamps
    /\ WallClock(a_data[2]) < WallClock(a_data[3])
    /\ WallClock(a_data[3]) < WallClock(a_data[1])

-----------------------------------------------------------------------------
(* resample applied to its own output *)

\* resample(resampled_df, target_timeframe): the rows of the first run are the
\* input of the second
ResampleAgain ==
    /\ a_pc = "aggregated"
    /\ a_df' = a_resampled
    /\ a_resampled' = ResampleFrame(a_resampled, a_tf)
    /\ a_pc' = "reaggregated"
    /\ UNCHANGED <<a_data, a_exchange, a_tf, a_validation>>
    /\ UNCHANGED <<callVars, extVars>>

TwiceNext == PrepareStep \/ ResampleStep \/ ResampleAgain

SpecTwice == AggInit /\ [][TwiceNext]_vars

\* C17: aggregating the output of an aggregation again with the same target
\* returns the same rows: same labels, same open, high, low, close and volume,
\* and as many rows.
C17_Idempotent ==
    a_pc = "reaggregated" =>
        /\ a_resampled = a_df
        /\ Len(a_resampled.rows) = Len(a_df.rows)
        /\ \A k \in 1..Len(a_df.rows) :
              /\ a_resampled.rows[k].ts = a_df.rows[k].ts
              /\ a_resampled.rows[k].volume = a_df.rows[k].volume

\* two candles of different weeks were aggregated to 1w twice, with two rows
\* each time
C17_Witness ==
    /\ a_pc = "reaggregated"
    /\ a_tf = "1w"
    /\ Len(a_data) = 2
    /\ Len(a_df.rows) = 2
    /\ Len(a_resampled.rows) = 2

-----------------------------------------------------------------------------
(* Claims about resample_to_standard_timeframes *)

Requested == Codes(TargetsOf(args))

\* the entry of timeframe tf when the stored rows are fetched, prepared and
\* aggregated to tf alone
EntryAlone(tf) ==
    LET source_df    == PrepareDataframe(stored, args.exchange)
        resampled_df == aggregate_ohlcv_advanced(source_df, SUPPORTED_TIMEFRAMES[tf])
    IN  ValidatedResult(resampled_df, ValidateDataIntegrity(source_df, resampled_df))

\* an exception was caught by the handler around the whole batch
BatchFailed == \E k \in 1..Len(raised) : raised[k].at # "m_each"

\* an exception was caught while timeframe tf was being aggregated
FailedAt(tf) == \E k \in 1..Len(raised) : raised[k].at = "m_each" /\ raised[k].tf = tf

\* C18: the returned map has exactly one entry per requested timeframe; the
\* entry of an unsupported timeframe is a failure with no data; the entry of a
\* supported timeframe is what it is without the unsupported one in the batch:
\* a function of the stored rows and of that timeframe alone.
C18_BatchIsolation ==
    (IsMulti /\ Returned) =>
        /\ DOMAIN results = Requested
        /\ \A tf \in Requested \ RegistryCodes :
              ~results[tf].success /\ results[tf].data = <<>>
        /\ (stored # <<>> /\ ~BatchFailed) =>
              \A tf \in Requested \cap RegistryCodes :
                  IF FailedAt(tf)
                  THEN ~results[tf].success /\ results[tf].data = <<>>
                  ELSE results[tf] = EntryAlone(tf)

\* a batch of 5m, 2m and 1d has returned: 2m failed, 5m and 1d succeeded
C18_Witness ==
    /\ IsMulti /\ Returned
    /\ args.target_timeframes = <<"5m", "2m", "1d">>
    /\ raised = <<>>
    /\ ~results["2m"].success
    /\ results["2m"].error = ErrTarget
    /\ results["5m"].success /\ results["5m"].data # <<>>
    /\ results["1d"].success /\ results["1d"].data # <<>>

\* C19: one call of resample_to_standard_timeframes fetches the source rows
\* exactly once, whatever the number of targets, and every target's entry is
\* computed from the rows of that fetch.
C19_SingleFetch ==
    IsMulti =>
        /\ queries.count = 0
        /\ queries.pages = <<>>
        /\ queries.all = IF pc \in {"m_validate", "m_fetch"} THEN 0 ELSE 1
        /\ pc \in {"m_each", "returned"} /\ ~BatchFailed /\ source # <<>> =>
              /\ source = stored
              /\ cur_df = PrepareDataframe(source, args.exchange)
              /\ \A tf \in DOMAIN results \cap RegistryCodes :
                    ~FailedAt(tf) =>
                        results[tf].data =
                            FrameDicts(aggregate_ohlcv_advanced(cur_df, SUPPORTED_TIMEFRAMES[tf]))

\* the five standard timeframes were computed after one fetch
C19_Witness ==
    /\ IsMulti /\ Returned
    /\ args.target_timeframes = <<>>
    /\ Requested = {"5m", "15m", "30m", "1h", "1d"}
    /\ queries.all = 1
    /\ raised = <<>>
    /\ \A tf \in Requested : results[tf].data # <<>>

-----------------------------------------------------------------------------
(* Claims about the progress sink *)

\* chunks aggregated so far: a page request whose exception was caught is not one
ChunksDone ==
    IF raised # <<>> /\ raised[1].at = "rd_page" /\ raised[1].message # ErrCallback
    THEN Len(queries.pages) - 1
    ELSE Len(queries.pages)

\* C20: the reports of a resample_data call never decrease in completed and
\* never exceed total; the chunked path reports once after each processed
\* chunk; a call that found rows and completed ends with (100, 100).
C20_Progress ==
    IsRD =>
        /\ \A k \in 1..Len(progress) :
              /\ progress[k][2] = 100
              /\ 0 <= progress[k][1]
              /\ progress[k][1] <= progress[k][2]
        /\ \A k \in 1..(Len(progress) - 1) : progress[k][1] <= progress[k + 1][1]
        /\ queries.pages # <<>> =>
              Len(progress) = 3 + ChunksDone + (IF pc = "returned" /\ acc = result.data /\ raised = <<>>
                                                THEN 1
                                                ELSE IF raised # <<>> /\ raised[1].at = "rd_sort"
                                                     THEN 1 ELSE 0)
        /\ Completed =>
              /\ progress[Len(progress)] = <<100, 100>>
              /\ IF result.processing_method = "chunked"
                 THEN /\ Len(progress) = 3 + Len(queries.pages) + 1
                      /\ Len(queries.pages) * chunk_size >= Total
                      /\ (Len(queries.pages) - 1) * chunk_size < Total
                 ELSE progress = <<<<0, 100>>, <<10, 100>>, <<20, 100>>, <<30, 100>>,
                                   <<50, 100>>, <<80, 100>>, <<100, 100>>>>

\* seven rows went through four pages of two: eight reports, the last two at 100
C20_Witness ==
    /\ ChunkedCompleted
    /\ Total = 7
    /\ chunk_size = 2
    /\ Len(queries.pages) = 4
    /\ Len(progress) = 8
    /\ progress[4][1] < progress[5][1]
    /\ progress[7] = <<100, 100>>
    /\ progress[8] = <<100, 100>>

-----------------------------------------------------------------------------
(* Two resample_data calls on one DataResampler instance.  Each call's     *)
(* locals are its own; the instance holds chunk_size, _current_progress    *)
(* and _total_operations; the table is read by both.                        *)

Calls == {1, 2}
MaxPairRows == 3

PairGrid == {<<0, 555>>, <<0, 556>>, <<0, 560>>}

\* (source_timeframe, target_timeframe) of a call
PairArgs == {<<"1m", "5m">>, <<"1m", "1m">>, <<"1m", "2m">>, <<"5m", "5m">>}

\* the locals of a call that has not started
NoCall ==
    [pc |-> "idle", source_timeframe |-> "", target_timeframe |-> "", total_records |-> 0,
     data |-> <<>>, offset |-> 0, processed |-> 0, all_resampled_data |-> <<>>,
     pages |-> <<>>, result |-> FailureResult(NoKey)]

PairInit ==
    /\ \E T \in {P \in SUBSET PairGrid : Cardinality(P) <= MaxPairRows} :
         \E f \in [T -> SeriesValues] :
           \E size \in 1..MaxChunk :
             pair = [stored |-> StoredRows(T, f), chunk_size |-> size,
                     current_progress |-> 0, total_operations |-> 0, writer |-> 0,
                     foreign |-> FALSE, interleaved |-> FALSE,
                     calls |-> [c \in Calls |-> NoCall]]
    /\ AggUnused
    /\ CallUnused
    /\ ExtUnusedBut({"pair"})

PairOnly == UNCHANGED <<aggVars, callVars, opt, bulk, limiter, fetcher, sched>>

Other(c) == CHOOSE d \in Calls : d # c

\* the call is between its first statement and its return
InFlight(c) == pair.calls[c].pc \notin {"idle", "returned"}

\* (mutation) the page loop takes its count of processed records from the instance
InstanceFieldsReadInLoop(position) ==
    IF position = "rd_page" THEN {"_current_progress"} ELSE {}

\* the mutable instance attributes the statements at a position read:
\* _current_progress and _total_operations are assigned and never read
InstanceFieldsRead(position) == {}

\* call c takes a step to the locals next; reports lists the values it hands
\* to _update_progress, in order
PairStep(c, next, reports) ==
    /\ pair' = [pair EXCEPT
                  !.calls[c] = next,
                  !.current_progress = IF reports = <<>> THEN @ ELSE reports[Len(reports)],
                  !.total_operations = IF reports = <<>> THEN @ ELSE 100,
                  !.writer = IF reports = <<>> THEN @ ELSE c,
                  !.foreign = @ \/ (InstanceFieldsRead(pair.calls[c].pc) # {}
                                    /\ pair.writer = Other(c)),
                  !.interleaved = @ \/ InFlight(Other(c))]
    /\ PairOnly

P_Call(c, a) ==
    /\ pair.calls[c].pc = "idle"
    /\ PairStep(c, [pair.calls[c] EXCEPT !.pc = "rd_validate", !.source_timeframe = a[1],
                                         !.target_timeframe = a[2]], <<>>)

\* _validate_timeframe(target), the source check, progress 0 and 10
P_Validate(c) ==
    LET me == pair.calls[c]
    IN  /\ me.pc = "rd_validate"
        /\ IF ValidateTimeframe(me.target_timeframe) = Invalid
           THEN PairStep(c, [me EXCEPT !.pc = "returned",
                                       !.result = FailureResult(ErrTimeframe)], <<>>)
           ELSE IF ~SourceSupported(me.source_timeframe)
           THEN PairStep(c, [me EXCEPT !.pc = "returned",
                                       !.result = FailureResult(ErrSource)], <<>>)
           ELSE PairStep(c, [me EXCEPT !.pc = "rd_count"], <<0, 10>>)

\* total_records = query.count(), the empty case, progress 20, the choice of the path
P_Count(c) ==
    LET me    == pair.calls[c]
        total == Len(pair.stored)
    IN  /\ me.pc = "rd_count"
        /\ IF NoRecords(total)
           THEN PairStep(c, [me EXCEPT !.pc = "returned", !.total_records = total,
                                       !.result = FailureResult(ErrNoData)], <<>>)
           ELSE PairStep(c, [me EXCEPT !.total_records = total,
                                       !.pc = IF Chunked(total, pair.chunk_size)
                                              THEN "rd_page" ELSE "rd_fetch"], <<20>>)

\* query.all() and progress 30
P_Fetch(c) ==
    LET me == pair.calls[c]
    IN  /\ me.pc = "rd_fetch"
        /\ PairStep(c, [me EXCEPT !.pc = "rd_prepare", !.data = pair.stored], <<30>>)

\* _prepare_dataframe and progress 50
P_Prepare(c) ==
    LET me == pair.calls[c]
    IN  /\ me.pc = "rd_prepare"
        /\ PairStep(c, [me EXCEPT !.pc = "rd_aggregate"], <<50>>)

\* _aggregate_ohlcv and progress 80
P_Aggregate(c) ==
    LET me == pair.calls[c]
    IN  /\ me.pc = "rd_aggregate"
        /\ PairStep(c, [me EXCEPT !.pc = "rd_finish"], <<80>>)

\* the validation, the output list, progress 100 and the returned dictionary
P_Finish(c) ==
    LET me           == pair.calls[c]
        df           == PrepareDataframe(me.data, "NSE")
        resampled_df == AggregateOhlcv(df, ValidateTimeframe(me.target_timeframe))
    IN  /\ me.pc = "rd_finish"
        /\ PairStep(c, [me EXCEPT !.pc = "returned",
                                  !.result = ValidatedResult(resampled_df,
                                                 ValidateDataIntegrity(df, resampled_df))],
                    <<100>>)

\* (mutation) the offset advances by the number of rows the page held
NextOffsetByRows(from, size, got) == from + got

\* offset += self.chunk_size
NextOffset(from, size, got) == from + size

\* one turn of "while offset < total_records": the page is asked for, and
\* recorded as (offset, limit, rows received)
P_Page(c) ==
    LET me              == pair.calls[c]
        chunk_data      == Page(pair.stored, me.offset, pair.chunk_size)
        chunk_df        == PrepareDataframe(chunk_data, "NSE")
        chunk_resampled == AggregateOhlcv(chunk_df, ValidateTimeframe(me.target_timeframe))
        done            == me.processed + Len(chunk_data)
        asked           == Append(me.pages, <<me.offset, pair.chunk_size, Len(chunk_data)>>)
    IN  /\ me.pc = "rd_page"
        /\ IF chunk_data = <<>>
           THEN PairStep(c, [me EXCEPT !.pc = "rd_sort", !.pages = asked], <<>>)
           ELSE PairStep(c, [me EXCEPT
                               !.pages = asked,
                               !.data = chunk_data,
                               !.all_resampled_data = @ \o FrameDicts(chunk_resampled),
                               !.processed = done,
                               !.offset = NextOffset(me.offset, pair.chunk_size, Len(chunk_data)),
                               !.pc = IF NextOffset(me.offset, pair.chunk_size, Len(chunk_data))
                                            < me.total_records
                                      THEN "rd_page" ELSE "rd_sort"],
                         <<ChunkProgress(done, me.total_records)>>)

\* the final sort, progress 100 and the returned dictionary
P_Sort(c) ==
    LET me == pair.calls[c]
    IN  /\ me.pc = "rd_sort"
        /\ PairStep(c, [me EXCEPT !.pc = "returned",
                                  !.all_resampled_data = SortByDatetime(@),
                                  !.result = ChunkedResult(SortByDatetime(me.all_resampled_data))],
                    <<100>>)

PairNext ==
    \E c \in Calls :
        \/ \E a \in PairArgs : P_Call(c, a)
        \/ P_Validate(c) \/ P_Count(c) \/ P_Fetch(c) \/ P_Prepare(c) \/ P_Aggregate(c)
        \/ P_Finish(c) \/ P_Page(c) \/ P_Sort(c)

SpecPair == PairInit /\ [][PairNext]_vars

\* the rows a call alone in the process collects from the pages at offset, offset + size, ...
RECURSIVE PagesAlone(_, _, _, _)
PagesAlone(rows, from, size, rule) ==
    IF from >= Len(rows) THEN <<>>
    ELSE FrameDicts(AggregateOhlcv(PrepareDataframe(Page(rows, from, size), "NSE"), rule))
             \o PagesAlone(rows, from + size, size, rule)

\* what resample_data returns for these arguments when no other call runs
RunAlone(rows, size, source_timeframe, target_timeframe) ==
    LET rule == ValidateTimeframe(target_timeframe)
        df   == PrepareDataframe(rows, "NSE")
    IN  IF rule = Invalid THEN FailureResult(ErrTimeframe)
        ELSE IF ~SourceSupported(source_timeframe) THEN FailureResult(ErrSource)
        ELSE IF NoRecords(Len(rows)) THEN FailureResult(ErrNoData)
        ELSE IF Chunked(Len(rows), size)
        THEN ChunkedResult(SortByDatetime(PagesAlone(rows, 0, size, rule)))
        ELSE ValidatedResult(AggregateOhlcv(df, rule),
                             ValidateDataIntegrity(df, AggregateOhlcv(df, rule)))

HasReturned(c) == pair.calls[c].pc = "returned"

-----------------------------------------------------------------------------
(* Claims about the pages of the chunked path *)

\* the bucket of the target timeframe that holds the k-th stored row
BucketOf(k) == WindowStart(WallClock(stored[k]), args.target_timeframe)

\* the page (counted from 0) that holds the k-th stored row
PageOf(k) == (k - 1) \div chunk_size

\* two pages hold candles of one bucket
BucketSplit ==
    \E i, j \in 1..Len(stored) : PageOf(i) # PageOf(j) /\ BucketOf(i) = BucketOf(j)

\* C22 as stated: for every ordered 1-minute series, with missing minutes or a
\* first candle off the bucket boundary as well, a chunk_size that is a multiple
\* of the bucket width keeps every bucket within one page, and the chunked
\* output equals the single-shot output row for row.
C22_AsStated ==
    (/\ ChunkedCompleted
     /\ args.source_timeframe = "1m"
     /\ chunk_size % MinutesOf(args.target_timeframe) = 0) =>
        /\ ~BucketSplit
        /\ result.data = SingleShot

\* six rows 09:15..09:18, 09:20, 09:21 went to 5m in pages of five: the bucket
\* 09:20 is in both pages and comes out as two rows
C22_Witness ==
    /\ ChunkedCompleted
    /\ args.source_timeframe = "1m"
    /\ args.target_timeframe = "5m"
    /\ chunk_size = 5
    /\ [k \in 1..Len(stored) |-> WallClock(stored[k])] = <<555, 556, 557, 558, 560, 561>>
    /\ BucketSplit
    /\ Len(result.data) = 3
    /\ Len(SingleShot) = 2

\* what does hold for C22's case: a gap-free series that starts on a bucket boundary
C22_AlignedSeries ==
    (/\ ChunkedCompleted
     /\ args.source_timeframe = "1m"
     /\ GapFree
     /\ OnBoundary
     /\ chunk_size % MinutesOf(args.target_timeframe) = 0) =>
        /\ ~BucketSplit
        /\ result.data = SingleShot

\* the bucket starts of the returned rows, in order
BucketStarts == [k \in 1..Len(result.data) |-> result.data[k].datetime[1]]

\* C23 as stated: for every chunk_size and every source series the chunked
\* result is strictly increasing by bucket start: sorted, and no bucket start in
\* two rows.
C23_AsStated ==
    ChunkedCompleted =>
        \A i, j \in 1..Len(result.data) : i < j => BucketStarts[i] < BucketStarts[j]

\* three rows 09:15, 09:16, 09:17 went to 5m in pages of two: the bucket 09:15
\* is returned twice
C23_Witness ==
    /\ ChunkedCompleted
    /\ args.target_timeframe = "5m"
    /\ chunk_size = 2
    /\ [k \in 1..Len(stored) |-> WallClock(stored[k])] = <<555, 556, 557>>
    /\ Len(result.data) = 2
    /\ BucketStarts[1] = BucketStarts[2]

\* what does hold for C23's case: the rows are in non-decreasing order
C23_SortedOnly ==
    ChunkedCompleted =>
        \A i, j \in 1..Len(result.data) : i < j => BucketStarts[i] <= BucketStarts[j]

\* C24: for every chunk_size, sizes that split a bucket across two pages
\* included, the volumes of the chunked output sum to the volumes of the source
\* rows.
C24_VolumeConserved ==
    ChunkedCompleted => DataVolume(result.data) = StoredVolume

\* a bucket was split across two pages and the volume is all there
C24_Witness ==
    /\ ChunkedCompleted
    /\ args.target_timeframe = "5m"
    /\ chunk_size = 2
    /\ BucketSplit
    /\ Len(stored) = 5
    /\ DataVolume(result.data) = StoredVolume
    /\ StoredVolume >= 6

-----------------------------------------------------------------------------
(* The page loop when rows leave the table between count() and the pages *)

\* another process deletes the newest row of the table
P_Shrink ==
    /\ pair.stored # <<>>
    /\ \E c \in Calls : InFlight(c)
    /\ pair' = [pair EXCEPT !.stored = SubSeq(@, 1, Len(@) - 1)]
    /\ PairOnly

ShrinkNext == PairNext \/ P_Shrink

SpecShrink == PairInit /\ [][ShrinkNext]_vars

\* the call has taken the chunked path
Paging(c) ==
    \/ pair.calls[c].pc \in {"rd_page", "rd_sort"}
    \/ HasReturned(c) /\ pair.calls[c].result.processing_method = "chunked"

\* the page loop of the call is over
LoopOver(c) ==
    \/ pair.calls[c].pc = "rd_sort"
    \/ HasReturned(c) /\ pair.calls[c].result.processing_method = "chunked"

\* the pages of the call that hold the record index i
PagesHolding(c, i) ==
    {k \in 1..Len(pair.calls[c].pages) :
        /\ pair.calls[c].pages[k][1] <= i
        /\ i < pair.calls[c].pages[k][1] + pair.calls[c].pages[k][2]}

\* a page of the call came back empty
CameBackEmpty(c) == \E k \in 1..Len(pair.calls[c].pages) : pair.calls[c].pages[k][3] = 0

CeilDiv(n, d) == (n + d - 1) \div d

\* C25: with total_records > chunk_size >= 1 the pages are asked for at the
\* offsets 0, chunk_size, 2*chunk_size, ..., each with limit chunk_size; no
\* record index is in two pages; the loop asks for at most
\* ceil(total_records / chunk_size) pages; when it ends without an empty page,
\* every index below total_records is in exactly one page; an empty page is the
\* last page asked for.
C25_Pages ==
    \A c \in Calls :
        Paging(c) =>
            LET me == pair.calls[c]
            IN  /\ me.total_records > pair.chunk_size
                /\ \A k \in 1..Len(me.pages) :
                     /\ me.pages[k][1] = (k - 1) * pair.chunk_size
                     /\ me.pages[k][2] = pair.chunk_size
                     /\ me.pages[k][3] = 0 => (k = Len(me.pages) /\ LoopOver(c))
                /\ \A i \in 0..(me.total_records - 1) : Cardinality(PagesHolding(c, i)) <= 1
                /\ Len(me.pages) <= CeilDiv(me.total_records, pair.chunk_size)
                /\ (LoopOver(c) /\ ~CameBackEmpty(c)) =>
                       \A i \in 0..(me.total_records - 1) : Cardinality(PagesHolding(c, i)) = 1

\* a call counted three rows and paged them one by one; one call met a short
\* table and stopped at the empty page, the other read all three pages
C25_Witness ==
    /\ pair.chunk_size = 1
    /\ pair.calls[1].total_records = 3
    /\ pair.calls[2].total_records = 3
    /\ HasReturned(1)
    /\ HasReturned(2)
    /\ Len(pair.calls[1].pages) = 3
    /\ [k \in 1..3 |-> pair.calls[1].pages[k][1]] = <<0, 1, 2>>
    /\ ~CameBackEmpty(1)
    /\ pair.calls[2].pages = <<<<0, 1, 1>>, <<1, 1, 0>>>>

-----------------------------------------------------------------------------
(* get_optimal_chunk_size_for_timeframe *)

MaximumChunkSize == 50000
MaxOptSize == 60000

\* the configured chunk sizes: small ones, and ones around the maximum
OptSizes == {1, 2, 174, 10000, MaximumChunkSize, MaximumChunkSize + 1, MaxOptSize}

OptTimeframes == STANDARD_TIMEFRAMES \cup {"1m", "3m", "1w"}
OptTotals == {0, 20001}

\* multiplier and base_unit of the entries of STANDARD_TIMEFRAMES
TimeframeInfo(timeframe) ==
    CASE timeframe = "5m"  -> [multiplier |-> 5,  base_unit |-> "minute"]
      [] timeframe = "15m" -> [multiplier |-> 15, base_unit |-> "minute"]
      [] timeframe = "30m" -> [multiplier |-> 30, base_unit |-> "minute"]
      [] timeframe = "1h"  -> [multiplier |-> 1,  base_unit |-> "hour"]
      [] timeframe = "1d"  -> [multiplier |-> 1,  base_unit |-> "day"]

\* (mutation) an hour counts as one source candle
CompressionRatioHourAsOne(tf_info) ==
    CASE tf_info.base_unit = "minute" -> tf_info.multiplier
      [] tf_info.base_unit = "hour"   -> tf_info.multiplier
      [] tf_info.base_unit = "day"    -> tf_info.multiplier * 1440
      [] OTHER                        -> 1

CompressionRatio(tf_info) ==
    CASE tf_info.base_unit = "minute" -> tf_info.multiplier
      [] tf_info.base_unit = "hour"   -> tf_info.multiplier * 60
      [] tf_info.base_unit = "day"    -> tf_info.multiplier * 1440
      [] OTHER                        -> 1

Min2(a, b) == IF a <= b THEN a ELSE b
Max2(a, b) == IF a >= b THEN a ELSE b

GetOptimalChunkSizeForTimeframe(size, timeframe, total_records) ==
    IF timeframe \notin STANDARD_TIMEFRAMES
    THEN size
    ELSE Min2(size * Max2(1, CompressionRatio(TimeframeInfo(timeframe)) \div 5),
              MaximumChunkSize)

OptInit ==
    /\ \E size \in OptSizes :
         opt = [chunk_size |-> size, timeframe |-> "", total_records |-> 0,
                asked |-> {}, returned |-> [t \in OptTimeframes |-> 0]]
    /\ AggUnused
    /\ CallUnused
    /\ ExtUnusedBut({"opt"})

O_Call(timeframe, total_records) ==
    /\ opt' = [opt EXCEPT
                 !.timeframe = timeframe,
                 !.total_records = total_records,
                 !.asked = @ \cup {timeframe},
                 !.returned[timeframe] =
                     GetOptimalChunkSizeForTimeframe(opt.chunk_size, timeframe, total_records)]
    /\ UNCHANGED <<aggVars, callVars, pair, bulk, limiter, fetcher, sched>>

OptNext == \E timeframe \in OptTimeframes, total_records \in OptTotals :
               O_Call(timeframe, total_records)

SpecOpt == OptInit /\ [][OptNext]_vars

\* position of a standard timeframe in the order 5m, 15m, 30m, 1h, 1d
Coarseness(timeframe) == CHOOSE k \in 1..Len(StandardList) : StandardList[k] = timeframe

Answered(timeframe) == timeframe \in opt.asked

\* the returned sizes do not decrease from 5m to 1d
NonDecreasing ==
    \A s, t \in STANDARD_TIMEFRAMES :
        (Answered(s) /\ Answered(t) /\ Coarseness(s) <= Coarseness(t)) =>
            opt.returned[s] <= opt.returned[t]

\* a timeframe outside STANDARD_TIMEFRAMES gets chunk_size back
NonStandardUnchanged ==
    \A t \in OptTimeframes \ STANDARD_TIMEFRAMES :
        Answered(t) => opt.returned[t] = opt.chunk_size

\* C26 as stated: the returned size is never smaller than the configured
\* chunk_size, does not decrease as the target gets coarser, and is chunk_size
\* itself for a non-standard timeframe.
C26_AsStated ==
    /\ \A t \in OptTimeframes : Answered(t) => opt.returned[t] >= opt.chunk_size
    /\ NonDecreasing
    /\ NonStandardUnchanged

\* C26: for a standard timeframe the returned size is
\* min(chunk_size * max(1, ratio // 5), 50000), so it is never smaller than the
\* smaller of chunk_size and 50000, and never smaller than chunk_size when
\* chunk_size is at most 50000; it does not decrease as the target gets
\* coarser; a non-standard timeframe gets chunk_size back, above 50000 as well.
C26_CappedSize ==
    /\ \A t \in STANDARD_TIMEFRAMES :
         Answered(t) =>
             /\ opt.returned[t] >= Min2(opt.chunk_size, MaximumChunkSize)
             /\ opt.returned[t] <= MaximumChunkSize
             /\ opt.chunk_size <= MaximumChunkSize => opt.returned[t] >= opt.chunk_size
    /\ NonDecreasing
    /\ NonStandardUnchanged

\* chunk_size 50001 got 50000 for 5m and for 1d, and 50001 for 1m
C26_Witness ==
    /\ opt.chunk_size = MaximumChunkSize + 1
    /\ {"5m", "30m", "1h", "1d", "1m"} \subseteq opt.asked
    /\ opt.returned["5m"] = MaximumChunkSize
    /\ opt.returned["1d"] = MaximumChunkSize
    /\ opt.returned["1m"] = MaximumChunkSize + 1

-----------------------------------------------------------------------------
(* POST /charts/resample: bulk_resample_data *)

MaxBatch == 2

\* JSON values a client puts in 'start_date': a date, a string that is not a
\* date, a number, null
StartDates ==
    {[type |-> "str", text |-> "2024-01-01"], [type |-> "str", text |-> "01/01/2024"],
     [type |-> "int", text |-> "20240101"], [type |-> "null", text |-> ""]}

WellFormedDates == {"2024-01-01"}

\* datetime.strptime(value, '%Y-%m-%d'): TypeError for a value that is not a
\* string, ValueError for a string that does not match the format
Strptime(value) ==
    IF value.type # "str" THEN "TypeError"
    ELSE IF value.text \notin WellFormedDates THEN "ValueError"
    ELSE value.text

\* the request objects: symbol, exchange and from_interval all given or one of
\* them missing, to_interval, start_date
BulkRequests ==
    [required : {"given", "missing"}, to_interval : {"5m", "2m"}, start_date : StartDates]

\* what the second try block meets: a cache hit, no source rows, source rows
\* that resample, an exception
BulkOutcomes == {"cached", "no data", "resampled", "raises"}

BulkInit ==
    /\ \E n \in 0..MaxBatch :
         \E reqs \in [1..n -> BulkRequests] :
           \E has \in BOOLEAN :
             bulk = [has_requests |-> has, requests |-> reqs, status |-> "received",
                     position |-> 0, success |-> <<>>, failed |-> <<>>, http |-> 0]
    /\ AggUnused
    /\ CallUnused
    /\ ExtUnusedBut({"bulk"})

BulkOnly == UNCHANGED <<aggVars, callVars, pair, opt, limiter, fetcher, sched>>

\* except ValueError
DateHandlerCatches == {"ValueError"}

\* the body is read; without 'requests' the answer is 400
B_Receive ==
    /\ bulk.status = "received"
    /\ bulk' = IF ~bulk.has_requests
               THEN [bulk EXCEPT !.status = "responded", !.http = 400]
               ELSE [bulk EXCEPT !.status = "looping", !.position = 1]
    /\ BulkOnly

\* one turn of "for req in resampling_requests"
B_Each(outcome) ==
    LET k      == bulk.position
        req    == bulk.requests[k]
        parsed == Strptime(req.start_date)
        fail   == [bulk EXCEPT !.failed = Append(@, k), !.position = k + 1]
        ok     == [bulk EXCEPT !.success = Append(@, k), !.position = k + 1]
    IN  /\ bulk.status = "looping"
        /\ k <= Len(bulk.requests)
        /\ bulk' =
             IF req.required = "missing" THEN fail
             ELSE IF req.to_interval \notin DOMAIN SUPPORTED_TIMEFRAMES THEN fail
             ELSE IF parsed \in DateHandlerCatches THEN fail
             ELSE IF parsed = "TypeError"
                  THEN [bulk EXCEPT !.status = "responded", !.http = 500]
             ELSE IF outcome \in {"cached", "resampled"} THEN ok
             ELSE fail
        /\ BulkOnly

\* return jsonify(results)
B_Return ==
    /\ bulk.status = "looping"
    /\ bulk.position > Len(bulk.requests)
    /\ bulk' = [bulk EXCEPT !.status = "responded", !.http = 200]
    /\ BulkOnly

BulkNext == B_Receive \/ (\E outcome \in BulkOutcomes : B_Each(outcome)) \/ B_Return

SpecBulk == BulkInit /\ [][BulkNext]_vars

Listed(list, k) == Cardinality({j \in 1..Len(list) : list[j] = k})

\* the route has answered a body that has a 'requests' list
BatchAnswered == bulk.status = "responded" /\ bulk.has_requests

\* C27 as stated: every request object of the batch ends up in exactly one of
\* the lists 'success' and 'failed', and a missing parameter, an invalid
\* target interval, a bad date, missing source data or an exception during
\* resampling of one request does not keep the later requests from being
\* processed.
C27_AsStated ==
    BatchAnswered =>
        /\ bulk.http = 200
        /\ \A k \in 1..Len(bulk.requests) :
             Listed(bulk.success, k) + Listed(bulk.failed, k) = 1

\* the first request's start_date is the number 20240101: the route answered
\* 500 with neither request in a list, the second request never looked at
C27_Witness ==
    /\ BatchAnswered
    /\ Len(bulk.requests) = 2
    /\ bulk.requests[1] = [required |-> "given", to_interval |-> "5m",
                           start_date |-> [type |-> "int", text |-> "20240101"]]
    /\ bulk.requests[2] = [required |-> "given", to_interval |-> "5m",
                           start_date |-> [type |-> "str", text |-> "2024-01-01"]]
    /\ bulk.http = 500
    /\ bulk.position = 1
    /\ bulk.success = <<>>
    /\ bulk.failed = <<>>

\* what does hold for C27's case: when every start_date that reaches the
\* parser is a string, each request is in exactly one list
C27_StringDates ==
    (BatchAnswered /\ \A k \in 1..Len(bulk.requests) :
                         \/ bulk.requests[k].start_date.type = "str"
                         \/ bulk.requests[k].required = "missing"
                         \/ bulk.requests[k].to_interval \notin DOMAIN SUPPORTED_TIMEFRAMES) =>
        /\ bulk.http = 200
        /\ \A k \in 1..Len(bulk.requests) :
             Listed(bulk.success, k) + Listed(bulk.failed, k) = 1

-----------------------------------------------------------------------------
(* RateLimiter: one limiter shared by concurrent callers of a decorated     *)
(* function.  Time is counted in ticks.  A recorded call time is kept as   *)
(* its age, time.time() minus the recorded value, which a tick raises by   *)
(* one; an age of period stands for every age from period on, as the code *)
(* tells no two such values apart.  A sleep is kept as the ticks left.     *)

MaxCallers == 3
MaxCalls == 2
MaxPeriod == 3

Callers == 1..MaxCallers

\* [call_time for call_time in self.calls if call_time > now - self.period]
RECURSIVE Purge(_, _)
Purge(ages, period) ==
    IF ages = <<>> THEN <<>>
    ELSE IF Head(ages) < period
         THEN <<Head(ages)>> \o Purge(Tail(ages), period)
         ELSE Purge(Tail(ages), period)

\* (mutation) the wait ends one tick before the oldest call leaves the period
SleepTimeShort(ages, period) == period - ages[1] - 1

\* sleep_time = self.calls[0] + self.period - now
SleepTime(ages, period) == period - ages[1]

LimiterInit ==
    /\ \E max_calls \in 1..MaxCalls, period \in 1..MaxPeriod :
         limiter = [max_calls |-> max_calls, period |-> period, calls |-> <<>>,
                    lock |-> 0, pc |-> [c \in Callers |-> "idle"],
                    sleep |-> [c \in Callers |-> 0], admitted |-> <<>>]
    /\ AggUnused
    /\ CallUnused
    /\ ExtUnusedBut({"limiter"})

LimiterOnly == UNCHANGED <<aggVars, callVars, pair, opt, bulk, fetcher, sched>>

\* a thread calls the decorated function and waits for the lock
L_Call(c) ==
    /\ limiter.pc[c] = "idle"
    /\ limiter' = [limiter EXCEPT !.pc[c] = "waiting"]
    /\ LimiterOnly

\* with self.lock: the clean-up, the check of the limit, and either the start
\* of the sleep (the lock stays held) or the append and the release
L_Enter(c) ==
    LET kept == Purge(limiter.calls, limiter.period)
    IN  /\ limiter.pc[c] = "waiting"
        /\ limiter.lock = 0
        /\ limiter' =
             IF Len(kept) >= limiter.max_calls /\ SleepTime(kept, limiter.period) > 0
             THEN [limiter EXCEPT !.calls = kept, !.lock = c, !.pc[c] = "sleeping",
                                  !.sleep[c] = SleepTime(kept, limiter.period)]
             ELSE [limiter EXCEPT !.calls = Append(kept, 0), !.pc[c] = "admitted",
                                  !.admitted = Append(@, 0)]
        /\ LimiterOnly

\* time.sleep returns, at once or later: the second clean-up, the append, the release
L_Wake(c) ==
    /\ limiter.pc[c] = "sleeping"
    /\ limiter.sleep[c] = 0
    /\ limiter' = [limiter EXCEPT !.calls = Append(Purge(@, limiter.period), 0),
                                  !.lock = 0, !.pc[c] = "admitted",
                                  !.admitted = Append(@, 0)]
    /\ LimiterOnly

\* one tick of the clock: every recorded time is one tick older, every sleep
\* has one tick less to go; admissions a period old are in no later window
L_Tick ==
    LET older(ages) == [k \in 1..Len(ages) |->
                           IF ages[k] < limiter.period THEN ages[k] + 1 ELSE ages[k]]
    IN  /\ limiter' = [limiter EXCEPT
                         !.calls = older(@),
                         !.admitted = Purge(older(@), limiter.period),
                         !.sleep = [c \in Callers |-> IF @[c] > 0 THEN @[c] - 1 ELSE 0]]
        /\ LimiterOnly

LimiterNext == L_Tick \/ \E c \in Callers : L_Call(c) \/ L_Enter(c) \/ L_Wake(c)

\* the clock advances, and a thread that can run does run
SpecLimiter ==
    /\ LimiterInit
    /\ [][LimiterNext]_vars
    /\ WF_vars(L_Tick)
    /\ \A c \in Callers : WF_vars(L_Enter(c)) /\ WF_vars(L_Wake(c))

\* the admissions recorded in the window of length period that ends now
\* (open at its old end, as the clean-up counts it)
InWindow == Len(limiter.admitted)

Waiting(c) == limiter.pc[c] \in {"waiting", "sleeping"}
Admitted(c) == limiter.pc[c] = "admitted"

-----------------------------------------------------------------------------
(* fetch_historical_data_chunked; a date is the number of its day *)

MaxDay == 5
MaxChunkDays == 3

\* what a call of fetch_historical_data does: data points, an empty list, an exception
FetchOutcomes == {"data", "empty", "raises"}

\* The module imports datetime, timedelta and logging and binds no
\* fetch_historical_data: as the file stands the call at line 36 raises
\* NameError, which the handler at line 48 catches.  bound = TRUE is the module
\* after an importer has set that global.
FetchInit ==
    /\ \E start_date \in 1..MaxDay :
         \E end_date \in start_date..MaxDay :
           \E chunk_days \in 1..MaxChunkDays, bound \in BOOLEAN :
             fetcher = [start_date |-> start_date, end_date |-> end_date,
                        chunk_days |-> chunk_days, bound |-> bound, pc |-> "idle",
                        current_start |-> 0, final_end |-> 0, ranges |-> <<>>,
                        requests |-> <<>>, failed |-> 0, all_data |-> {}]
    /\ AggUnused
    /\ CallUnused
    /\ ExtUnusedBut({"fetcher"})

FetchOnly == UNCHANGED <<aggVars, callVars, pair, opt, bulk, limiter, sched>>

\* current_start and final_end are parsed
F_Call ==
    /\ fetcher.pc = "idle"
    /\ fetcher' = [fetcher EXCEPT !.pc = "loop", !.current_start = fetcher.start_date,
                                  !.final_end = fetcher.end_date]
    /\ FetchOnly

\* while current_start < final_end
LoopGoesOn(current_start, final_end) == current_start < final_end

\* one turn of the loop: the chunk's range, the fetch inside try/except, the
\* step to the day after chunk_end
F_Chunk(outcome) ==
    LET chunk_end == Min2(fetcher.current_start + (fetcher.chunk_days - 1), fetcher.final_end)
        range     == <<fetcher.current_start, chunk_end>>
    IN  /\ fetcher.pc = "loop"
        /\ LoopGoesOn(fetcher.current_start, fetcher.final_end)
        /\ fetcher' =
             [fetcher EXCEPT
                !.ranges = Append(@, range),
                !.requests = IF fetcher.bound THEN Append(@, range) ELSE @,
                !.failed = IF ~fetcher.bound \/ outcome = "raises" THEN @ + 1 ELSE @,
                !.all_data = IF fetcher.bound /\ outcome = "data"
                             THEN @ \cup (fetcher.current_start..chunk_end) ELSE @,
                !.current_start = chunk_end + 1]
        /\ FetchOnly

\* return all_data
F_Return ==
    /\ fetcher.pc = "loop"
    /\ ~LoopGoesOn(fetcher.current_start, fetcher.final_end)
    /\ fetcher' = [fetcher EXCEPT !.pc = "returned"]
    /\ FetchOnly

FetchNext == F_Call \/ (\E outcome \in FetchOutcomes : F_Chunk(outcome)) \/ F_Return

SpecFetch == FetchInit /\ [][FetchNext]_vars

\* the days of the date ranges in list
DaysOf(list) == UNION {list[k][1]..list[k][2] : k \in 1..Len(list)}

\* each range starts on the day after the range before it ends
Contiguous(list) == \A k \in 1..(Len(list) - 1) : list[k + 1][1] = list[k][2] + 1

\* C29 as stated: for start_date <= end_date and chunk_days >= 1 the function
\* returns, the date ranges of the requests it issued are contiguous and
\* non-overlapping, and together they are exactly the days from start_date to
\* end_date inclusive; a failed chunk is followed by the next chunk.
C29_AsStated ==
    fetcher.pc = "returned" =>
        /\ Contiguous(fetcher.requests)
        /\ DaysOf(fetcher.requests) = fetcher.start_date..fetcher.end_date

\* 1 to 3 in chunks of two days, the name bound and every fetch answered: one
\* request, for the days 1 to 2, and day 3 was never asked for
C29_Witness ==
    /\ fetcher.pc = "returned"
    /\ fetcher.bound
    /\ fetcher.start_date = 1
    /\ fetcher.end_date = 3
    /\ fetcher.chunk_days = 2
    /\ fetcher.failed = 0
    /\ fetcher.requests = <<<<1, 2>>>>
    /\ fetcher.all_data = {1, 2}

\* what does hold for C29's case: the ranges the loop works on are contiguous,
\* begin at start_date, reach the day before end_date at least and end_date at
\* most, and a failed chunk is followed by the next one; no request is issued
\* while the name is unbound
C29_RangesOfLoop ==
    fetcher.pc = "returned" =>
        /\ Contiguous(fetcher.ranges)
        /\ \A k \in 1..Len(fetcher.ranges) : fetcher.ranges[k][1] <= fetcher.ranges[k][2]
        /\ (fetcher.start_date..(fetcher.end_date - 1)) \subseteq DaysOf(fetcher.ranges)
        /\ DaysOf(fetcher.ranges) \subseteq fetcher.start_date..fetcher.end_date
        /\ fetcher.start_date = fetcher.end_date => fetcher.ranges = <<>>
        /\ ~fetcher.bound => (fetcher.requests = <<>> /\ fetcher.failed = Len(fetcher.ranges))

-----------------------------------------------------------------------------
(* SchedulerManager: the jobs of the running scheduler, the rows of         *)
(* SchedulerJob, and a restart of the application                           *)

\* one job of each job_type; the job's id is its type
JobTypes == {"daily", "interval", "market_close", "pre_market"}

NoRow == [present |-> FALSE, is_paused |-> FALSE]

SchedInit ==
    /\ sched = [phase |-> "up",
                live |-> [j \in JobTypes |-> "absent"],
                rows |-> [j \in JobTypes |-> NoRow],
                paused_before |-> {}]
    /\ AggUnused
    /\ CallUnused
    /\ ExtUnusedBut({"sched"})

SchedOnly == UNCHANGED <<aggVars, callVars, pair, opt, bulk, limiter, fetcher>>

Running == sched.phase \in {"up", "loaded"}

\* whether adding a job of this type writes is_paused = False to its row:
\* add_daily_download_job and add_interval_download_job when persist is set,
\* add_market_close_job and add_pre_market_job always
ResetsPausedFlag(job_type, persist) ==
    persist \/ job_type \in {"market_close", "pre_market"}

\* the row of job j after add_*_job
RowAfterAdd(row, j, persist) ==
    IF ResetsPausedFlag(j, persist) THEN [present |-> TRUE, is_paused |-> FALSE] ELSE row

\* a job is added by the application (persist is left at its default)
S_Add(j) ==
    /\ Running
    /\ sched' = [sched EXCEPT !.phase = "up", !.live[j] = "running",
                              !.rows[j] = RowAfterAdd(@, j, TRUE)]
    /\ SchedOnly

\* pause_job: the scheduler's job, then the row
S_Pause(j) ==
    /\ Running
    /\ sched.live[j] # "absent"
    /\ sched' = [sched EXCEPT !.phase = "up", !.live[j] = "paused",
                              !.rows[j] = IF @.present THEN [@ EXCEPT !.is_paused = TRUE] ELSE @]
    /\ SchedOnly

\* resume_job
S_Resume(j) ==
    /\ Running
    /\ sched.live[j] # "absent"
    /\ sched' = [sched EXCEPT !.phase = "up", !.live[j] = "running",
                              !.rows[j] = IF @.present THEN [@ EXCEPT !.is_paused = FALSE] ELSE @]
    /\ SchedOnly

\* remove_job
S_Remove(j) ==
    /\ Running
    /\ sched.live[j] # "absent"
    /\ sched' = [sched EXCEPT !.phase = "up", !.live[j] = "absent", !.rows[j] = NoRow]
    /\ SchedOnly

\* the process ends: the scheduler's jobs are gone, the rows stay
S_Shutdown ==
    /\ Running
    /\ sched' = [sched EXCEPT
                   !.phase = "down",
                   !.live = [j \in JobTypes |-> "absent"],
                   !.paused_before = {j \in JobTypes : sched.rows[j].present
                                                       /\ sched.rows[j].is_paused}]
    /\ SchedOnly

\* init_app and _load_persisted_jobs: each row's job is added again with the
\* helper of its job_type, and then paused if the row's flag, read after the
\* helper has run, is set
S_Startup ==
    LET added(j)  == RowAfterAdd(sched.rows[j], j, FALSE)
        loaded(j) == sched.rows[j].present
    IN  /\ sched.phase = "down"
        /\ sched' = [sched EXCEPT
                       !.phase = "loaded",
                       !.live = [j \in JobTypes |->
                                    IF ~loaded(j) THEN "absent"
                                    ELSE IF added(j).is_paused THEN "paused" ELSE "running"],
                       !.rows = [j \in JobTypes |->
                                    IF loaded(j) THEN added(j) ELSE sched.rows[j]]]
        /\ SchedOnly

SchedNext ==
    \/ \E j \in JobTypes : S_Add(j) \/ S_Pause(j) \/ S_Resume(j) \/ S_Remove(j)
    \/ S_Shutdown
    \/ S_Startup

SpecSched == SchedInit /\ [][SchedNext]_vars

\* job j is paused in the scheduler and in its row
PausedAgain(j) == sched.live[j] = "paused" /\ sched.rows[j].is_paused

\* C30 as stated: for every job type, a job that was paused before shutdown is
\* paused again once the persisted jobs are reloaded, and its row's is_paused
\* is still true.
C30_AsStated ==
    sched.phase = "loaded" => \A j \in sched.paused_before : PausedAgain(j)

\* all four jobs were paused before the restart: daily and interval are paused
\* again, market_close and pre_market run and their rows say not paused
C30_Witness ==
    /\ sched.phase = "loaded"
    /\ sched.paused_before = JobTypes
    /\ PausedAgain("daily")
    /\ PausedAgain("interval")
    /\ sched.live["market_close"] = "running" /\ ~sched.rows["market_close"].is_paused
    /\ sched.live["pre_market"] = "running" /\ ~sched.rows["pre_market"].is_paused

\* what does hold for C30's case: the daily and the interval job
C30_DailyAndInterval ==
    sched.phase = "loaded" =>
        \A j \in sched.paused_before \cap {"daily", "interval"} : PausedAgain(j)

====
